---- MODULE Spec2Model ----
(***************************************************************************)
(* A model of Q-Core: the generic DAO contract (BaseDAO) over the          *)
(* in-memory TestConcreteDAO and the Prisma adapter, BaseService.findById, *)
(* the error pipeline (ErrorResolver + errorHandlers), the catchAsync     *)
(* wrappers, BaseDTO, BaseService, ResponseSender, BaseController,         *)
(* ExpressServer, ExpressCRUDRouter, concurrent callers of one DAO and     *)
(* globalErrorHandler.                                                     *)
(*                                                                         *)
(* Values.  An entity, a filter and an update patch are functions from     *)
(* field names to values ({...a, ...b} is Spread(a, b)).  A nullable       *)
(* result (TEntity | null) is a sequence of length at most one; a list     *)
(* result is a sequence.  A JS Map is a sequence of entities in insertion  *)
(* order with unique ids.                                                  *)
(***************************************************************************)
EXTENDS Integers, Sequences, FiniteSets, TLC

VARIABLES
    cfg,                \* the DAO under test: its adapter kind and dto.config.autoFields
    memory,             \* TestConcreteDAO.memory (for the Prisma adapter: the table)
    transactionActive,  \* TestConcreteDAO.transactionActive (Prisma: a $transaction callback runs)
    transactionMemory,  \* TestConcreteDAO.transactionMemory: {} is null, {m} a Map (Prisma: the transaction's view)
    tx,                 \* the caller of withTransaction: where its callback stands
    last,               \* the last DAO call: its arguments, what reached the store, its result
    svc,                \* the BaseService calls: the last findById, or the calls in flight
    err,                \* the last ErrorResolver.resolve call
    ca,                 \* the calls of catchAsync-wrapped handlers
    dto,                \* the last BaseDTO call
    snd,                \* the last ResponseSender call
    ctl,                \* the BaseController handler calls in flight
    srv,                \* the process running ExpressServer instances
    rt,                 \* the last ExpressCRUDRouter built
    mw                  \* a request in the error-handling part of the pipeline

daoVars == <<cfg, memory, transactionActive, transactionMemory, tx, last>>
vars == <<cfg, memory, transactionActive, transactionMemory, tx, last, svc, err, ca,
          dto, snd, ctl, srv, rt, mw>>

----
(* Bounds and input domains *)

\* the longest transaction body (writes made through the transactional DAO)
MaxTxOps == 3

Ids == {"a", "b"}
Emails == {"x", "y"}

\* `undefined`/absent soft-delete field name: the empty string is falsy, as in JS
NONE == ""

NULL == <<>>
Some(e) == <<e>>

\* { ...a, ...b }
Spread(a, b) ==
    [k \in (DOMAIN a) \cup (DOMAIN b) |-> IF k \in DOMAIN b THEN b[k] ELSE a[k]]

EmptyObj == [k \in {} |-> TRUE]
Obj1(k, v) == [x \in {k} |-> v]

\* The entities a caller can hand to insert: isDeleted is optional in TestEntity
Entities ==
    { Spread(Spread(Obj1("id", i), Obj1("email", m)), d) :
        i \in Ids, m \in Emails,
        d \in {EmptyObj, Obj1("isDeleted", FALSE), Obj1("isDeleted", TRUE)} }

\* Partial<TestEntity> without the primary key: filters and update patches
Partials ==
    { Spread(m, d) :
        m \in {EmptyObj} \cup { Obj1("email", x) : x \in Emails },
        d \in {EmptyObj, Obj1("isDeleted", FALSE), Obj1("isDeleted", TRUE)} }

Patches == Partials \ {EmptyObj}

----
(* src/__tests__/base/testDAOImpl.ts: the TestConcreteDAO store primitives *)

\* Object.entries(filter).every(([key, value]) => entity[key] === value)
Matches(entity, filter) ==
    \A k \in DOMAIN filter : k \in DOMAIN entity /\ entity[k] = filter[k]

HasKey(s, id) == \E i \in 1..Len(s) : s[i]["id"] = id
IndexOf(s, id) == CHOOSE i \in 1..Len(s) : s[i]["id"] = id

\* Map.get(id) || null
MapGet(s, id) == IF HasKey(s, id) THEN Some(s[IndexOf(s, id)]) ELSE NULL

\* Map.set(id, e): an existing key keeps its place, a new key goes last
MapSet(s, id, e) ==
    IF HasKey(s, id)
    THEN [i \in 1..Len(s) |-> IF i = IndexOf(s, id) THEN e ELSE s[i]]
    ELSE Append(s, e)

\* Map.delete(id)
MapDelete(s, id) == SelectSeq(s, LAMBDA e : e["id"] # id)

Result(s, r, t) == [store |-> s, ret |-> r, threw |-> t]

T_create(s, data) == Result(MapSet(s, data["id"], data), Some(data), "")

T_findAll(s, filter) == SelectSeq(s, LAMBDA e : Matches(e, filter))

T_findUnique(s, filter) ==
    LET found == T_findAll(s, filter)
    IN  IF Len(found) > 0 THEN Some(Head(found)) ELSE NULL

\* mutant of T_updateOne: the patch replaces the record instead of being merged into it
T_updateOne_replace(s, id, data) ==
    LET existing == MapGet(s, id)
    IN  IF existing = NULL
        THEN Result(s, NULL, "")
        ELSE LET updatedEntity == Spread(Obj1("id", id), data)
             IN  Result(MapSet(s, id, updatedEntity), Some(updatedEntity), "")

T_updateOne(s, id, data) ==
    LET existing == MapGet(s, id)
    IN  IF existing = NULL
        THEN Result(s, NULL, "")
        ELSE LET updatedEntity == Spread(existing[1], data)
             IN  Result(MapSet(s, id, updatedEntity), Some(updatedEntity), "")

T_hardDeleteOne(s, id) == Result(MapDelete(s, id), MapGet(s, id), "")

T_softDeleteOne(s, id) == T_updateOne(s, id, Obj1("isDeleted", TRUE))

T_restore(s, id) == T_updateOne(s, id, Obj1("isDeleted", FALSE))

----
(* src/unnamed/part_021: PrismaDAO over the Prisma model delegate.  Each    *)
(* method builds the delegate's argument object, spreading the caller's     *)
(* options after its own keys, so a key of options replaces the DAO's.  The *)
(* delegate's create rejects a duplicate key (P2002); its update and delete *)
(* reject when no record matches `where` (P2025, "record to update not      *)
(* found"), the errors that errorHandlers classifies; findUnique rejects a  *)
(* `where` that names no unique field (here: id) with a validation error;   *)
(* findMany returns the first `take` matches when take is given.            *)

\* what a read settles with: a value, or a rejection
Found(ret, threw) == [ret |-> ret, threw |-> threw]

\* { where: filter, ...options }
P_where(filter, options) == Spread(Obj1("where", filter), options)

\* { where: { id }, data, ...options }
P_whereData(id, data, options) ==
    Spread([k \in {"where", "data"} |-> IF k = "where" THEN Obj1("id", id) ELSE data],
           options)

\* the delegate: model.findMany(args)
model_findMany(s, args) ==
    LET found == T_findAll(s, args["where"])
    IN  IF "take" \in DOMAIN args /\ args["take"] < Len(found)
        THEN Found(SubSeq(found, 1, args["take"]), "")
        ELSE Found(found, "")

\* the delegate: model.findUnique(args)
model_findUnique(s, args) ==
    IF "id" \notin DOMAIN args["where"]
    THEN Found(NULL, "PrismaClientValidationError")
    ELSE Found(T_findUnique(s, args["where"]), "")

\* the delegate: model.update(args)
model_update(s, args) ==
    LET found == T_findUnique(s, args["where"])
    IN  IF "id" \notin DOMAIN args["where"]
        THEN Result(s, NULL, "PrismaClientValidationError")
        ELSE IF found = NULL
        THEN Result(s, NULL, "P2025")
        ELSE T_updateOne(s, found[1]["id"], args["data"])

P_create(s, data) ==
    IF HasKey(s, data["id"])
    THEN Result(s, NULL, "P2002")
    ELSE Result(Append(s, data), Some(data), "")

P_findUnique(s, filter, options) == model_findUnique(s, P_where(filter, options))

P_findAll(s, filter, options) == model_findMany(s, P_where(filter, options))

P_updateOne(s, id, data, options) == model_update(s, P_whereData(id, data, options))

P_hardDeleteOne(s, id) ==
    IF ~HasKey(s, id)
    THEN Result(s, NULL, "P2025")
    ELSE T_hardDeleteOne(s, id)

P_softDeleteOne(c, s, id) ==
    IF c.isDeletedField = NONE
    THEN Result(s, NULL, "Soft deletion is not supported for this entity")
    ELSE model_update(s, P_whereData(id, Obj1(c.isDeletedField, TRUE), EmptyObj))

P_restore(c, s, id) ==
    IF c.isDeletedField = NONE
    THEN Result(s, NULL, "Restoration is not available for this entity")
    ELSE model_update(s, P_whereData(id, Obj1(c.isDeletedField, FALSE), EmptyObj))

----
(* src/unnamed/part_010 (lines 155-428): BaseDAO *)

Kinds == {"test", "prisma"}
Configs == [kind : Kinds, isDeletedField : {"isDeleted", NONE}]

\* the abstract methods, bound to the concrete DAO; TestConcreteDAO's take no options
_create(c, s, data) == IF c.kind = "test" THEN T_create(s, data) ELSE P_create(s, data)
_findUnique(c, s, filter, options) ==
    IF c.kind = "test" THEN Found(T_findUnique(s, filter), "")
    ELSE P_findUnique(s, filter, options)
_findAll(c, s, filter, options) ==
    IF c.kind = "test" THEN Found(T_findAll(s, filter), "")
    ELSE P_findAll(s, filter, options)
_updateOne(c, s, id, data, options) ==
    IF c.kind = "test" THEN T_updateOne(s, id, data) ELSE P_updateOne(s, id, data, options)
_hardDeleteOne(c, s, id) ==
    IF c.kind = "test" THEN T_hardDeleteOne(s, id) ELSE P_hardDeleteOne(s, id)
_softDeleteOne(c, s, id) ==
    IF c.kind = "test" THEN T_softDeleteOne(s, id) ELSE P_softDeleteOne(c, s, id)
_restore(c, s, id) ==
    IF c.kind = "test" THEN T_restore(s, id) ELSE P_restore(c, s, id)

\* the filter that reaches the store: the one the DAO built, or for the Prisma
\* adapter the `where` of the delegate's arguments
reached(c, filter, options) ==
    IF c.kind = "test" THEN filter ELSE P_where(filter, options)["where"]

supportsSoftDelete(c) == c.isDeletedField # NONE

\* the filter findAll / findOne hand to the store
enhancedFilter(c, filter, includeDeleted) ==
    IF supportsSoftDelete(c)
    THEN IF includeDeleted
         THEN filter
         ELSE Spread(filter, Obj1(c.isDeletedField, FALSE))
    ELSE filter

findAll(c, s, filter, options, includeDeleted) ==
    _findAll(c, s, enhancedFilter(c, filter, includeDeleted), options)

findOne(c, s, filter, options, includeDeleted) ==
    _findUnique(c, s, enhancedFilter(c, filter, includeDeleted), options)

\* the filter findById hands to the store
idFilter(c, id, includeDeleted) ==
    IF supportsSoftDelete(c)
    THEN IF includeDeleted
         THEN Obj1("id", id)
         ELSE Spread(Obj1("id", id), Obj1(c.isDeletedField, FALSE))
    ELSE Obj1("id", id)

findById(c, s, id, options, includeDeleted) ==
    _findUnique(c, s, idFilter(c, id, includeDeleted), options)

insert(c, s, entity) == _create(c, s, entity)

update(c, s, id, entity, options) == _updateOne(c, s, id, entity, options)

\* delete(id, config = { returnRecord: true })
delete(c, s, id, returnRecord) ==
    LET result == _hardDeleteOne(c, s, id)
    IN  IF returnRecord THEN result ELSE [result EXCEPT !.ret = NULL]

restore(c, s, id) ==
    IF ~supportsSoftDelete(c)
    THEN Result(s, NULL,
           "Restore operation is available only for entities that support soft deletion")
    ELSE _restore(c, s, id)

\* softDelete(id, config?): the record is returned only for returnRecord === true
softDelete(c, s, id, returnRecord) ==
    IF ~supportsSoftDelete(c)
    THEN Result(s, NULL, "This entity doesn't support soft deletion")
    ELSE LET result == _softDeleteOne(c, s, id)
         IN  IF returnRecord THEN result ELSE [result EXCEPT !.ret = NULL]

----
(* The DAO as a state machine: one caller issuing DAO calls, directly or    *)
(* from inside the callback it passed to withTransaction.  memory is the    *)
(* committed table: TestConcreteDAO's Map, or the database table behind the *)
(* Prisma delegate.  transactionMemory is the table as the transaction sees *)
(* it: TestConcreteDAO's copy of the Map, or the view of the transaction    *)
(* client that PrismaDAO.createTransactionalInstance binds the DAO handed   *)
(* to the operation to.                                                     *)

\* the options a caller passes to findAll
FindOptions == {EmptyObj, Obj1("where", Obj1("isDeleted", TRUE)), Obj1("take", 1)}

\* the options a caller passes to findOne, findById and update
UniqueOptions == {EmptyObj, Obj1("where", Obj1("id", "b"))}

NoOptions == {EmptyObj}

\* mutant of store: the getter always answers the committed Map
store_committed == memory

\* TestConcreteDAO.store (getter): the Map the primitives read and write;
\* PrismaDAO.model (getter): the delegate of the client the instance is bound to
store == IF transactionActive THEN CHOOSE m \in transactionMemory : TRUE ELSE memory

\* a primitive's writes land in the Map the getter returned
setStore(s) ==
    IF transactionActive
    THEN transactionMemory' = {s} /\ UNCHANGED memory
    ELSE memory' = s /\ UNCHANGED transactionMemory

\* result: what withTransaction resolved with, the value its operation returned
TxIdle == [state |-> "idle", n |-> 0, before |-> <<>>, dirty |-> FALSE, result |-> NULL]

Call(op, id, arg, options, incl, sent, ret, threw) ==
    [op |-> op, id |-> id, arg |-> arg, options |-> options, includeDeleted |-> incl,
     sent |-> sent, ret |-> ret, threw |-> threw]

NoCall == Call("none", "", EmptyObj, EmptyObj, FALSE, EmptyObj, NULL, "")

\* a write made inside a transaction body counts towards the body's length
canWrite == tx.state = "running" => tx.n < MaxTxOps
wrote == tx' = IF tx.state = "running" THEN [tx EXCEPT !.n = @ + 1] ELSE tx

Write(op, id, arg, options, r) ==
    /\ canWrite
    /\ setStore(r.store)
    /\ last' = Call(op, id, arg, options, FALSE, EmptyObj, r.ret, r.threw)
    /\ wrote
    /\ UNCHANGED <<cfg, transactionActive, svc, err, ca, dto, snd, ctl, srv, rt, mw>>

Read(op, id, arg, options, incl, sent, found) ==
    /\ last' = Call(op, id, arg, options, incl, sent, found.ret, found.threw)
    /\ UNCHANGED <<cfg, memory, transactionActive, transactionMemory, tx, svc, err, ca, dto, snd, ctl, srv, rt, mw>>

\* the inputs a caller draws from: entities, patches, filters
Insert(E) == \E e \in E : Write("insert", e["id"], e, EmptyObj, insert(cfg, store, e))

Update(P, O) ==
    \E id \in Ids, d \in P, o \in O :
        Write("update", id, d, o, update(cfg, store, id, d, o))

Delete ==
    \E id \in Ids, rr \in BOOLEAN :
        Write("delete", id, EmptyObj, EmptyObj, delete(cfg, store, id, rr))

SoftDelete ==
    \E id \in Ids, rr \in BOOLEAN :
        Write("softDelete", id, EmptyObj, EmptyObj, softDelete(cfg, store, id, rr))

Restore ==
    \E id \in Ids : Write("restore", id, EmptyObj, EmptyObj, restore(cfg, store, id))

FindAll(F, O) ==
    \E f \in F, o \in O, incl \in BOOLEAN :
        Read("findAll", "", f, o, incl, reached(cfg, enhancedFilter(cfg, f, incl), o),
             findAll(cfg, store, f, o, incl))

FindOne(F, O) ==
    \E f \in F, o \in O, incl \in BOOLEAN :
        Read("findOne", "", f, o, incl, reached(cfg, enhancedFilter(cfg, f, incl), o),
             findOne(cfg, store, f, o, incl))

FindById(O) ==
    \E id \in Ids, o \in O, incl \in BOOLEAN :
        Read("findById", id, Obj1("id", id), o, incl, reached(cfg, idFilter(cfg, id, incl), o),
             findById(cfg, store, id, o, incl))

\* TestConcreteDAO._withTransaction up to `await operation(this)`;
\* PrismaDAO._withTransaction up to `await operation(transactionalDAO)`
TxBegin ==
    /\ tx.state # "running"
    /\ transactionActive' = TRUE
    /\ transactionMemory' = {memory}
    /\ tx' = [state |-> "running", n |-> 0, before |-> memory, dirty |-> FALSE,
              result |-> NULL]
    /\ UNCHANGED <<cfg, memory, last, svc, err, ca, dto, snd, ctl, srv, rt, mw>>

\* the transaction is over: what its caller is left with
\* (the operation returns what its last DAO call returned)
TxEnd(outcome) ==
    [state |-> outcome, n |-> 0, before |-> <<>>, dirty |-> (store # memory),
     result |-> IF outcome = "resolved" THEN last.ret ELSE NULL]

\* the operation resolved: memory = transactionMemory, then the finally block;
\* for Prisma, $transaction commits what the transaction client wrote
TxCommit ==
    /\ tx.state = "running"
    /\ memory' = (CHOOSE m \in transactionMemory : TRUE)
    /\ transactionActive' = FALSE
    /\ transactionMemory' = {}
    /\ tx' = TxEnd("resolved")
    /\ UNCHANGED <<cfg, last, svc, err, ca, dto, snd, ctl, srv, rt, mw>>

\* mutant of TxThrow: the transaction store is committed before the error is rethrown
TxThrow_commits ==
    /\ tx.state = "running"
    /\ memory' = (CHOOSE m \in transactionMemory : TRUE)
    /\ transactionActive' = FALSE
    /\ transactionMemory' = {}
    /\ tx' = TxEnd("rejected")
    /\ UNCHANGED <<cfg, last, svc, err, ca, dto, snd, ctl, srv, rt, mw>>

\* the operation threw or rejected: the catch rethrows, then the finally block;
\* for Prisma, $transaction rolls back and rejects
TxThrow ==
    /\ tx.state = "running"
    /\ transactionActive' = FALSE
    /\ transactionMemory' = {}
    /\ tx' = TxEnd("rejected")
    /\ UNCHANGED <<cfg, memory, last, svc, err, ca, dto, snd, ctl, srv, rt, mw>>

SvcIdle == [op |-> "none"]
ErrIdle == [op |-> "none"]
DtoIdle == [op |-> "none"]
SndIdle == [op |-> "none"]
CtlIdle == [op |-> "none"]
SrvIdle == [op |-> "none"]
RtIdle == [op |-> "none"]
MwIdle == [op |-> "none"]

\* the requests in flight, each with its own next
Requests == {1, 2}

CaCall(wrapper, behaviour, e, pc, nextCalls, escaped, rejected) ==
    [wrapper |-> wrapper, behaviour |-> behaviour, e |-> e, pc |-> pc,
     nextCalls |-> nextCalls, escaped |-> escaped, rejected |-> rejected]

CaIdle == [r \in Requests |-> CaCall("none", "none", "", "idle", <<>>, NULL, NULL)]

Init ==
    /\ cfg \in Configs
    /\ memory = <<>>
    /\ transactionActive = FALSE
    /\ transactionMemory = {}
    /\ tx = TxIdle
    /\ last = NoCall
    /\ svc = SvcIdle
    /\ err = ErrIdle
    /\ ca = CaIdle
    /\ dto = DtoIdle
    /\ snd = SndIdle
    /\ ctl = CtlIdle
    /\ srv = SrvIdle
    /\ rt = RtIdle
    /\ mw = MwIdle

\* a caller of the DAO that uses no transaction
Next ==
    \/ Insert(Entities)
    \/ Update(Patches, UniqueOptions)
    \/ Delete
    \/ SoftDelete
    \/ Restore
    \/ FindAll(Partials, FindOptions)
    \/ FindOne(Partials, UniqueOptions)
    \/ FindById(UniqueOptions)

Spec == Init /\ [][Next]_vars

\* a caller that runs transactions, one at a time, and passes no options
TxEntities == { e \in Entities : e["email"] = "x" }
TxPatches == { d \in Patches : "email" \in DOMAIN d => d["email"] = "x" }

InitTx == Init

NextTx ==
    \/ Insert(TxEntities)
    \/ Update(TxPatches, NoOptions)
    \/ Delete
    \/ SoftDelete
    \/ Restore
    \/ FindById(NoOptions)
    \/ TxBegin
    \/ TxCommit
    \/ TxThrow

SpecTx == InitTx /\ [][NextTx]_vars

----
(* Claims about the DAO *)

\* the record's soft-delete flag, under the DTO's configured field, is true
flagged(c, e) == c.isDeletedField \in DOMAIN e /\ e[c.isDeletedField] = TRUE

\* the record carries the flag, and it is false
live(c, e) == c.isDeletedField \in DOMAIN e /\ e[c.isDeletedField] = FALSE

Finds == {"findAll", "findOne", "findById"}

\* C1 (the claim as stated): with a soft-delete field declared, findAll / findOne / findById called without
\* includeDeleted never return a record whose flag is true, whatever the caller's
\* filter says; the flag = false condition is added to the filter exactly when the
\* field is declared and includeDeleted is false, else the filter reaches the store
\* as the caller gave it.
C1_FindsExcludeSoftDeleted ==
    last.op \in Finds =>
        /\ (supportsSoftDelete(cfg) /\ ~last.includeDeleted) =>
                \A i \in 1..Len(last.ret) : ~flagged(cfg, last.ret[i])
        /\ last.sent =
                IF supportsSoftDelete(cfg) /\ ~last.includeDeleted
                THEN Spread(last.arg, Obj1(cfg.isDeletedField, FALSE))
                ELSE last.arg

\* C2 (the claim as stated): delete(id) of an existing record soft-deletes when the
\* DTO declares a soft-delete field (the record stays, flag true, visible with
\* includeDeleted and restorable) and removes the record when it declares none.
C2_DeleteIsSoftWhenSupported ==
    (last.op = "delete" /\ last.threw = "" /\ last.ret # NULL) =>
        IF supportsSoftDelete(cfg)
        THEN /\ findById(cfg, store, last.id, EmptyObj, TRUE).ret # NULL
             /\ flagged(cfg, findById(cfg, store, last.id, EmptyObj, TRUE).ret[1])
             /\ restore(cfg, store, last.id).ret # NULL
        ELSE ~HasKey(store, last.id)

\* C3 (the claim as stated): with soft-delete support, for any record r of the
\* store: after softDelete(r.id) findById(r.id) is null, and after a following
\* restore(r.id) findById(r.id) is a record equal to r.
C3_RoundTripReturnsOriginal ==
    supportsSoftDelete(cfg) =>
        \A i \in 1..Len(store) :
            LET r == store[i]
                s1 == softDelete(cfg, store, r["id"], FALSE).store
                s2 == restore(cfg, s1, r["id"]).store
            IN  /\ findById(cfg, s1, r["id"], EmptyObj, FALSE).ret = NULL
                /\ findById(cfg, s2, r["id"], EmptyObj, FALSE).ret = Some(r)

\* C3: with soft-delete support, for any record r of the store: after
\* softDelete(r.id) findById(r.id) is null, and after a following restore(r.id)
\* findById(r.id) is r with the flag false: every other field as in r, so the
\* record is r itself exactly when r carried the flag false, and a record that
\* was inserted without the flag, or with it true, comes back with the flag false.
C3_SoftDeleteRestoreRoundTrip ==
    supportsSoftDelete(cfg) =>
        /\ \A i \in 1..Len(store) :
              LET r == store[i]
                  s1 == softDelete(cfg, store, r["id"], FALSE).store
                  s2 == restore(cfg, s1, r["id"]).store
                  back == findById(cfg, s2, r["id"], EmptyObj, FALSE).ret
              IN  /\ findById(cfg, s1, r["id"], EmptyObj, FALSE).ret = NULL
                  /\ back = Some(Spread(r, Obj1(cfg.isDeletedField, FALSE)))
                  /\ (back = Some(r)) <=> live(cfg, r)
        /\ (last.op = "softDelete" /\ last.threw = "") =>
              findById(cfg, store, last.id, EmptyObj, FALSE).ret = NULL
        /\ (last.op = "restore" /\ last.threw = "" /\ last.ret # NULL) =>
              /\ findById(cfg, store, last.id, EmptyObj, FALSE).ret = last.ret
              /\ live(cfg, last.ret[1])

\* C3 witness: restore has just brought a record back and findById returns it
C3_Witness ==
    /\ supportsSoftDelete(cfg)
    /\ last.op = "restore"
    /\ last.ret # NULL
    /\ findById(cfg, store, last.id, EmptyObj, FALSE).ret = last.ret
    /\ "email" \in DOMAIN last.ret[1]

\* C4 (the claim as stated): restore(id) throws when the DTO declares no soft-delete
\* field, returns null without throwing when no record has that id, and changes the
\* store in neither case, for every DAO implementation.
C4_RestoreNonSuccess ==
    /\ last.op = "restore" =>
          /\ ~supportsSoftDelete(cfg) => last.threw # ""
          /\ (supportsSoftDelete(cfg) /\ ~HasKey(store, last.id)) =>
                (last.threw = "" /\ last.ret = NULL)
    /\ \A id \in Ids :
          LET r == restore(cfg, store, id)
          IN  (r.threw # "" \/ r.ret = NULL) => r.store = store

\* C5: when the operation passed to withTransaction throws, withTransaction rejects
\* and the store is what it was before the call; the DAO has left transactional mode.
C5_RollbackOnThrow ==
    [][(tx.state = "running" /\ tx'.state = "rejected") =>
            (memory' = tx.before /\ ~transactionActive' /\ transactionMemory' = {})]_vars

\* C5 witness: a transaction was rejected after its body had changed the
\* transactional store
C5_Witness == tx.state = "rejected" /\ tx.dirty /\ ~transactionActive

----
(* src/src/base/baseService.ts (lines 107-255): BaseService.findById over a *)
(* DAO whose findById result is given, as the service's tests mock it.      *)

\* the names a DTO may configure for its soft-delete field
ServiceFields == {"isDeleted", "archived", NONE}

\* what dao.findById may resolve to: null, or a record carrying either flag
Yields ==
    {NULL} \cup
    { Some(Spread(Spread(Spread(Obj1("id", i), Obj1("email", m)), d), a)) :
        i \in Ids, m \in Emails,
        d \in {EmptyObj, Obj1("isDeleted", FALSE), Obj1("isDeleted", TRUE)},
        a \in {EmptyObj, Obj1("archived", FALSE), Obj1("archived", TRUE)} }

\* src/src/utils/apiError.ts: new ApiError({ statusCode, message, path, errorCode })
ApiError(statusCode, message, path, errorCode) ==
    [type |-> "ApiError", statusCode |-> statusCode, message |-> message,
     path |-> path, errorCode |-> errorCode]

\* the DTO's formatter: BaseDTO.toJSON, or the override the service's tests install
Formatters == {"default", "mock"}

\* BaseDTO.toJSON returns the entity as it is; the tests' override marks it
toJSON(fmt, entity) ==
    IF fmt = "mock" THEN Spread(entity, Obj1("formatted", TRUE)) ELSE entity

\* BaseService._formatOutput
_formatOutput(fmt, entity) == toJSON(fmt, entity)

\* `entity.isDeleted` as a condition: true only for a present, true flag
isDeletedTruthy(entity) == "isDeleted" \in DOMAIN entity /\ entity["isDeleted"] = TRUE

\* BaseService.findById(id), the DTO configured with soft-delete field `field`,
\* dao.findById(id) resolving to `yield`
service_findById(fmt, field, id, yield) ==
    IF yield = NULL \/ isDeletedTruthy(yield[1])
    THEN [threw |-> Some(ApiError(404, "Entity not found for ID: " \o id, "id",
                                  "RESOURCE_NOT_FOUND")),
          result |-> NULL]
    ELSE [threw |-> NULL, result |-> Some(_formatOutput(fmt, yield[1]))]

ServiceFindById ==
    \E fmt \in Formatters, field \in ServiceFields, id \in Ids, y \in Yields :
        /\ svc' = [op |-> "findById", fmt |-> fmt, field |-> field, id |-> id, yield |-> y,
                   out |-> service_findById(fmt, field, id, y)]
        /\ UNCHANGED <<cfg, memory, transactionActive, transactionMemory, tx, last, err, ca, dto, snd, ctl, srv, rt, mw>>

InitSvc == Init /\ cfg = [kind |-> "test", isDeletedField |-> "isDeleted"]

NextSvc == ServiceFindById

SpecSvc == InitSvc /\ [][NextSvc]_vars

\* C6 (the claim as stated): BaseService.findById(id) throws the 404 ApiError (path
\* "id", code RESOURCE_NOT_FOUND, message "Entity not found for ID: <id>") exactly when
\* the DAO yields nothing or a record whose flag, under the DTO's configured
\* soft-delete field, is true; otherwise it returns the formatted record.
C6_ServiceFindByIdNotFound ==
    svc.op = "findById" =>
        LET softDeleted ==
                /\ svc.yield # NULL
                /\ svc.field # NONE
                /\ svc.field \in DOMAIN svc.yield[1]
                /\ svc.yield[1][svc.field] = TRUE
        IN  IF svc.yield = NULL \/ softDeleted
            THEN /\ svc.out.threw # NULL
                 /\ svc.out.threw[1].type = "ApiError"
                 /\ svc.out.threw[1].statusCode = 404
                 /\ svc.out.threw[1].path = "id"
                 /\ svc.out.threw[1].errorCode = "RESOURCE_NOT_FOUND"
                 /\ svc.out.threw[1].message = "Entity not found for ID: " \o svc.id
            ELSE /\ svc.out.threw = NULL
                 /\ svc.out.result = Some(_formatOutput(svc.fmt, svc.yield[1]))

----
(* The error pipeline: src/unnamed/part_014 (errorHandlers),                *)
(* src/src/error/errorResolver.ts (ErrorResolver, ErrorFormatter),          *)
(* src/src/utils/sendResponse.ts (ResponseSender).                          *)
(*                                                                          *)
(* A thrown value is a record of the properties the pipeline reads; ""      *)
(* stands for a property that is undefined, NULL for an absent meta.  A     *)
(* constraint name is the sequence of its pieces, "_" being a piece.  In a  *)
(* message the quote ' stands for the backquote that Prisma puts around a   *)
(* name.  type is the class of the value: "ZodError" is what                *)
(* `new ZodError(issues)` builds, which with zod 4 is no Error and has no   *)
(* stack; "ZodRealError" is what zod's own parse throws, a ZodError that is *)
(* an Error (as every ZodError is with zod 3).                              *)

\* the types of the values that are no object or no instance of a class
Plain == {"string", "number", "object", "null", "undefined"}

\* error.name: the class sets it, except ApiError, which inherits "Error"
nameOf(type) ==
    IF type \in Plain THEN ""
    ELSE IF type = "ApiError" THEN "Error"
    ELSE IF type = "ZodRealError" THEN "ZodError"
    ELSE type

Thrown(type, code, meta, message, path, errorCode, statusCode, stack, issues) ==
    [type |-> type, name |-> nameOf(type), code |-> code, meta |-> meta,
     message |-> message, path |-> path, errorCode |-> errorCode,
     statusCode |-> statusCode, stack |-> stack, issues |-> issues]

\* a plain object with a name property
Named(e, name) == [e EXCEPT !.name = name]

Meta(target) ==
    [target |-> target, modelName |-> "User", field_name |-> "userId",
     cause |-> "Record to update not found."]

\* constraint names: "", "email", "User_email", "User_email_key", "_key"
Targets == {<<>>, <<"email">>, <<"User", "_", "email">>,
            <<"User", "_", "email", "_", "key">>, <<"_", "key">>}

Metas == {NULL, Some(Meta(NULL))} \cup {Some(Meta(Some(t))) : t \in Targets}

KnownRequestErrors ==
    { Thrown("PrismaClientKnownRequestError", c, m, "db", "", "", 0, "trace", <<>>) :
        c \in {"P2002", "P2003", "P2025", "P2024"}, m \in Metas }

ApiErrors ==
    { Thrown("ApiError", "", NULL, "msg", p, c, sc, "trace", <<>>) :
        p \in {"", "id"}, c \in {"", "RESOURCE_NOT_FOUND"}, sc \in {400, 404} }

OtherErrors ==
    { Thrown("PrismaClientInitializationError", "", NULL, "init", "", "", 0, "trace", <<>>),
      Thrown("ZodRealError", "", NULL, "zod", "", "", 0, "trace",
             << [path |-> <<"email">>, message |-> "Invalid email"],
                [path |-> <<>>, message |-> "Invalid input"] >>),
      Thrown("ZodError", "", NULL, "zod", "", "", 0, "",
             << [path |-> <<"email">>, message |-> "Invalid email"] >>),
      Thrown("SyntaxError", "", NULL, "Unexpected token", "", "", 400, "trace", <<>>),
      Thrown("Error", "", NULL, "boom", "", "", 0, "trace", <<>>),
      Thrown("Error", "", NULL, "", "", "", 0, "trace", <<>>) }

\* the messages of Prisma's validation errors
ValidationMessages ==
    { "Invalid 'prisma.user.create()' invocation:\nInvalid value for argument 'email': Got invalid value 42",
      "Invalid value for field 'age'.\n  Got invalid value 'x' on prisma.\t",
      "Invalid value for argument '': Unknown argument 'emial'\n",
      "bad" }

ValidationErrors ==
    { Thrown("PrismaClientValidationError", "", NULL, m, "", "", 0, "trace", <<>>) :
        m \in ValidationMessages }

\* values that are no Error: a string, a number, plain objects, null, undefined
NonErrors ==
    { Thrown(t, "", NULL, "", "", "", 0, "", <<>>) : t \in Plain }
    \cup { Thrown("object", c, NULL, "oops", "", "", 0, "", <<>>) :
             c \in {"P2002", "P2003", "P1012"} }
    \cup { Named(Thrown("object", "", NULL, m, "", "", 0, "", <<>>),
                 "PrismaClientValidationError") : m \in {"", "bad"} }

ThrownValues ==
    KnownRequestErrors \cup ApiErrors \cup OtherErrors \cup ValidationErrors \cup NonErrors

\* err instanceof cls
instanceOf(e, cls) ==
    \/ e.type = cls
    \/ cls = "ZodError" /\ e.type = "ZodRealError"
    \/ cls = "Error" /\ e.type \in {"PrismaClientKnownRequestError",
                                     "PrismaClientInitializationError",
                                     "PrismaClientValidationError", "ZodRealError",
                                     "SyntaxError", "ApiError"}

\* reading a property of null or undefined throws a TypeError
nullish(e) == e.type \in {"null", "undefined"}

Detail(path, message, code) == [path |-> path, message |-> message, code |-> code]

\* a || b on strings
Or(a, b) == IF a # "" THEN a ELSE b

Formatted(errors) == [threw |-> "", errors |-> errors]
TypeError == [threw |-> "TypeError", errors |-> <<>>]

\* the string a sequence of pieces spells
RECURSIVE Concat(_)
Concat(s) == IF s = <<>> THEN "" ELSE s[1] \o Concat(Tail(s))

\* target.split("_"): the pieces between the separators, "" for none
RECURSIVE split(_)
split(s) ==
    IF \A i \in 1..Len(s) : s[i] # "_"
    THEN <<Concat(s)>>
    ELSE LET i == CHOOSE j \in 1..Len(s) : s[j] = "_" /\ \A k \in 1..(j - 1) : s[k] # "_"
         IN  <<Concat(SubSeq(s, 1, i - 1))>> \o split(SubSeq(s, i + 1, Len(s)))

\* mutant of duplicateEntry: the last segment is taken
duplicateEntry_lastSegment(e) ==
    LET part == IF e.meta # NULL /\ e.meta[1].target # NULL
                THEN split(e.meta[1].target[1]) ELSE <<>>
        field == IF Len(part) > 1 THEN part[Len(part)] ELSE "unknown"
    IN  Formatted(<<Detail(field, "Provide unique entry", "DUPLICATE_ENTRY")>>)

\* ErrorFormatter.duplicateEntry
duplicateEntry(e) ==
    LET part == IF e.meta # NULL /\ e.meta[1].target # NULL
                THEN split(e.meta[1].target[1]) ELSE <<>>
        field == IF Len(part) > 1 THEN part[Len(part) - 1] ELSE "unknown"
    IN  Formatted(<<Detail(field, "Provide unique entry", "DUPLICATE_ENTRY")>>)

\* ErrorFormatter.foreignKeyConstraint: reads error.meta.field_name
foreignKeyConstraint(e) ==
    IF e.meta = NULL
    THEN TypeError
    ELSE Formatted(<<Detail(<<e.meta[1].modelName, e.meta[1].field_name>>,
                            "Foreign key constraint failed", "FOREIGN_KEY_CONSTRAINT")>>)

\* ErrorFormatter.notFound: reads error.meta.cause
notFound(e) ==
    IF e.meta = NULL
    THEN TypeError
    ELSE Formatted(<<Detail(e.meta[1].modelName, e.meta[1].cause, "RESOURCE_NOT_FOUND")>>)

\* ErrorFormatter.databaseError
databaseError == Formatted(<<Detail("database", "A database error occurred", "DATABASE_ERROR")>>)

\* issue.path.join(".")
RECURSIVE JoinDots(_)
JoinDots(p) ==
    IF p = <<>> THEN ""
    ELSE IF Len(p) = 1 THEN p[1]
    ELSE p[1] \o "." \o JoinDots(Tail(p))

\* ErrorFormatter.zodError
zodError(issues) ==
    Formatted([i \in 1..Len(issues) |->
                 Detail(Or(JoinDots(issues[i].path), "unknown"), issues[i].message,
                        "VALIDATION_ERROR")])

\* s.indexOf(sub) looked for from position i on: the position, 0 for none
startsAt(s, i, sub) == i + Len(sub) - 1 <= Len(s) /\ SubSeq(s, i, i + Len(sub) - 1) = sub

RECURSIVE indexOf(_, _, _)
indexOf(s, sub, i) ==
    IF i + Len(sub) - 1 > Len(s) THEN 0
    ELSE IF startsAt(s, i, sub) THEN i
    ELSE indexOf(s, sub, i + 1)

\* s.substring from position i to the end
substring(s, i) == IF i > Len(s) THEN "" ELSE SubSeq(s, i, Len(s))

\* message.split("\n").pop()
RECURSIVE lastLine(_)
lastLine(s) ==
    LET i == indexOf(s, "\n", 1)
    IN  IF i = 0 THEN s ELSE lastLine(substring(s, i + 1))

blank(c) == c \in {" ", "\t", "\r", "\n"}

\* s.trim()
RECURSIVE trim(_)
trim(s) ==
    IF s = "" THEN s
    ELSE IF blank(SubSeq(s, 1, 1)) THEN trim(substring(s, 2))
    ELSE IF blank(SubSeq(s, Len(s), Len(s))) THEN trim(SubSeq(s, 1, Len(s) - 1))
    ELSE s

\* /Invalid value for (?:argument|field) `([^`]+)`/ tried at position i: the capture,
\* "" when the expression does not match there
captureAt(s, i) ==
    LET intro == IF startsAt(s, i, "Invalid value for argument '")
                 THEN "Invalid value for argument '"
                 ELSE IF startsAt(s, i, "Invalid value for field '")
                 THEN "Invalid value for field '"
                 ELSE ""
        from == i + Len(intro)
        close == indexOf(s, "'", from)
    IN  IF intro = "" \/ close = 0 \/ close = from THEN ""
        ELSE SubSeq(s, from, close - 1)

\* message.match(...): the capture of the leftmost match, "" for no match
RECURSIVE fieldMatch(_, _)
fieldMatch(s, i) ==
    IF i > Len(s) THEN ""
    ELSE IF captureAt(s, i) # "" THEN captureAt(s, i)
    ELSE fieldMatch(s, i + 1)

\* errorReason.split("Got invalid value")[1]
afterGot(s) ==
    LET sep == "Got invalid value"
        tail == substring(s, indexOf(s, sep, 1) + Len(sep))
        again == indexOf(tail, sep, 1)
    IN  IF again = 0 THEN tail ELSE SubSeq(tail, 1, again - 1)

\* ErrorFormatter.prismaValidationError
prismaValidationError(e) ==
    LET field == Or(fieldMatch(e.message, 1), "unknown")
        line == Or(trim(lastLine(e.message)), "Invalid input provided")
        errorReason == IF indexOf(line, "Got invalid value", 1) # 0
                       THEN trim(afterGot(line)) ELSE line
    IN  Formatted(<<Detail(field, errorReason, "VALIDATION_ERROR")>>)

\* ErrorFormatter.invalidJSON
invalidJSON(e) ==
    Formatted(<<Detail(Or(e.path, "body"), Or(e.message, "Invalid JSON body provided"),
                       "BAD_REQUEST")>>)

\* ErrorFormatter.formatGenericError
formatGenericError(e) ==
    IF e.name = "PrismaClientValidationError" THEN prismaValidationError(e)
    ELSE Formatted(<<Detail(Or(e.path, "unknown"),
                            Or(e.message, "An unexpected error occurred"), "UNKNOWN")>>)

\* ErrorFormatter.apiError
apiError(e) == Formatted(<<Detail(Or(e.path, "unknown"), e.message, Or(e.errorCode, "UNKNOWN"))>>)

\* ErrorFormatter.formatOtherError
formatOtherError(e) ==
    IF nullish(e) THEN TypeError
    ELSE IF e.code = "P2002" THEN duplicateEntry(e)
    ELSE IF e.code = "P2003" THEN foreignKeyConstraint(e)
    ELSE IF e.code = "P2025" THEN notFound(e)
    ELSE IF e.code = "P1012" THEN prismaValidationError(e)
    ELSE IF e.name = "PrismaClientValidationError" THEN prismaValidationError(e)
    ELSE Formatted(<<Detail("unknown", Or(e.message, "An unknown error occurred"), "UNKNOWN")>>)

\* the environment: NODE_ENV when sendResponse.ts was loaded, and now
Envs == [loadedInProduction : BOOLEAN, production : BOOLEAN]

\* ResponseSender.isDevMode, fixed when the module is loaded
isDevMode(env) == ~env.loadedInProduction

\* mutant of stackNow: the stack is passed on whatever the mode
stackNow_always(env, e) == e.stack

\* process.env["NODE_ENV"] === "production" ? undefined : err.stack
stackNow(env, e) == IF env.production THEN "" ELSE e.stack

\* ResponseSender.formatResponse; data and errors are NULL when not passed, and an
\* object or an array, empty or not, is truthy
formatResponse(env, statusCode, message, data, errors, stack) ==
    Spread(Spread(Spread([success |-> (statusCode >= 200 /\ statusCode < 300),
                          statusCode |-> statusCode, message |-> message],
                         IF data # NULL /\ errors = NULL
                         THEN Obj1("data", data[1]) ELSE EmptyObj),
                  IF errors # NULL THEN Obj1("errors", errors[1]) ELSE EmptyObj),
           IF stack # "" /\ isDevMode(env) THEN Obj1("stack", stack) ELSE EmptyObj)

\* ResponseSender.sendError: the body handed to res.status(statusCode).json
sendError(env, statusCode, message, errors, stack) ==
    Spread([success |-> FALSE, statusCode |-> statusCode, message |-> message,
            errors |-> errors],
           IF stack # "" /\ isDevMode(env) THEN Obj1("stack", stack) ELSE EmptyObj)

\* mutant of errorHandlers: the generic Error entry placed before the ApiError entry
errorHandlers_errorFirst ==
    <<"P2002", "P2003", "P2025", "Init", "Known", "Zod", "Syntax", "Zod2", "Error", "ApiError">>

\* the handler table, in its order
errorHandlers ==
    <<"P2002", "P2003", "P2025", "Init", "Known", "Zod", "Syntax", "Zod2", "ApiError", "Error">>

\* the entry's predicate
check(entry, e) ==
    CASE entry = "P2002" -> instanceOf(e, "PrismaClientKnownRequestError") /\ e.code = "P2002"
      [] entry = "P2003" -> instanceOf(e, "PrismaClientKnownRequestError") /\ e.code = "P2003"
      [] entry = "P2025" -> instanceOf(e, "PrismaClientKnownRequestError") /\ e.code = "P2025"
      [] entry = "Init" -> instanceOf(e, "PrismaClientInitializationError")
      [] entry = "Known" -> instanceOf(e, "PrismaClientKnownRequestError")
      [] entry = "Zod" -> instanceOf(e, "ZodError")
      [] entry = "Syntax" -> instanceOf(e, "SyntaxError")
      [] entry = "Zod2" -> instanceOf(e, "ZodError")
      [] entry = "ApiError" -> instanceOf(e, "ApiError")
      [] entry = "Error" -> instanceOf(e, "Error")

Handled(f, response) ==
    IF f.threw # "" THEN [threw |-> f.threw, response |-> EmptyObj]
    ELSE [threw |-> "", response |-> response]

\* the entry's handler: the response it returns, or the TypeError it dies with
handler(entry, e, env) ==
    CASE entry = "P2002" ->
            Handled(duplicateEntry(e),
                    formatResponse(env, 409, "Conflict", NULL, Some(duplicateEntry(e).errors), ""))
      [] entry = "P2003" ->
            Handled(foreignKeyConstraint(e),
                    formatResponse(env, 409, "Conflict", NULL, Some(foreignKeyConstraint(e).errors), ""))
      [] entry = "P2025" ->
            Handled(notFound(e),
                    formatResponse(env, 404, "Not Found", NULL, Some(notFound(e).errors), ""))
      [] entry = "Init" ->
            Handled(Formatted(<<>>),
                    formatResponse(env, 503, "Service Unavailable", NULL,
                        Some(<<Detail("database", "Database not initialized", "DATABASE_ERROR")>>), ""))
      [] entry = "Known" ->
            Handled(databaseError,
                    formatResponse(env, 404, "Not Found", NULL, Some(databaseError.errors), ""))
      [] entry = "Zod" ->
            Handled(zodError(e.issues),
                    formatResponse(env, 400, "Validation Error", NULL, Some(zodError(e.issues).errors), ""))
      [] entry = "Syntax" ->
            Handled(invalidJSON(e),
                    formatResponse(env, 400, "Invalid JSON", NULL, Some(invalidJSON(e).errors), ""))
      \* err.validatedError is undefined on a ZodError: zodError(undefined) throws
      [] entry = "Zod2" -> Handled(TypeError, EmptyObj)
      [] entry = "ApiError" ->
            Handled(apiError(e),
                    formatResponse(env, e.statusCode, e.message, NULL, Some(apiError(e).errors),
                                   stackNow(env, e)))
      [] entry = "Error" ->
            Handled(formatGenericError(e),
                    formatResponse(env, 500, "Internal Server Error", NULL,
                                   Some(formatGenericError(e).errors), stackNow(env, e)))

\* this.errorHandlers.find(handler => handler.check(err)): its index, 0 for undefined
find(e) ==
    IF \E i \in 1..Len(errorHandlers) : check(errorHandlers[i], e)
    THEN CHOOSE i \in 1..Len(errorHandlers) :
            /\ check(errorHandlers[i], e)
            /\ \A j \in 1..(i - 1) : ~check(errorHandlers[j], e)
    ELSE 0

\* the fallback branch of resolve
fallback(e, env) ==
    Handled(formatOtherError(e),
            formatResponse(env, 500, "An unexpected error occurred", NULL,
                           Some(formatOtherError(e).errors), stackNow(env, e)))

Get(obj, k) == IF k \in DOMAIN obj THEN obj[k] ELSE ""

\* ErrorResolver.resolve(err): the entry selected (0: none), the handlers run, the
\* bodies sent, and the exception resolve itself dies with
resolve(e, env) ==
    LET idx == find(e)
        h == IF idx # 0 THEN handler(errorHandlers[idx], e, env) ELSE fallback(e, env)
    IN  [selected |-> idx,
         ran |-> IF idx # 0 THEN <<errorHandlers[idx]>> ELSE <<>>,
         threw |-> h.threw,
         sent |-> IF h.threw # "" THEN <<>>
                  ELSE <<sendError(env, h.response["statusCode"], h.response["message"],
                                   h.response["errors"], Get(h.response, "stack"))>>]

Resolve ==
    \E e \in ThrownValues, env \in Envs :
        /\ err' = [op |-> "resolve", e |-> e, env |-> env, out |-> resolve(e, env)]
        /\ UNCHANGED <<cfg, memory, transactionActive, transactionMemory, tx, last, svc, ca, dto, snd, ctl, srv, rt, mw>>

InitErr == InitSvc

NextErr == Resolve

SpecErr == InitErr /\ [][NextErr]_vars

\* C7: resolve runs the handler of the first matching entry and no other, and sends
\* exactly one error envelope per call, whatever was thrown.
C7_FirstMatchOneEnvelope ==
    err.op = "resolve" =>
        /\ \A i \in 1..Len(errorHandlers) :
              (check(errorHandlers[i], err.e)
               /\ \A j \in 1..(i - 1) : ~check(errorHandlers[j], err.e))
              => err.out.ran = <<errorHandlers[i]>>
        /\ Len(err.out.sent) = 1

\* C8: a thrown value that no predicate matches makes resolve complete without
\* throwing and send a 500 envelope, success false, "An unexpected error occurred".
C8_UnmatchedGets500 ==
    (err.op = "resolve" /\ \A i \in 1..Len(errorHandlers) : ~check(errorHandlers[i], err.e)) =>
        /\ err.out.threw = ""
        /\ Len(err.out.sent) = 1
        /\ err.out.sent[1]["statusCode"] = 500
        /\ err.out.sent[1]["success"] = FALSE
        /\ err.out.sent[1]["message"] = "An unexpected error occurred"

\* C9: a thrown ApiError is answered by the ApiError entry only: the envelope has the
\* error's statusCode and message and one detail, with the error's path ("unknown"
\* when absent) and errorCode (UNKNOWN when absent).
C9_ApiErrorEntryAnswers ==
    (err.op = "resolve" /\ err.e.type = "ApiError") =>
        /\ err.out.ran = <<"ApiError">>
        /\ err.out.threw = ""
        /\ Len(err.out.sent) = 1
        /\ err.out.sent[1]["statusCode"] = err.e.statusCode
        /\ err.out.sent[1]["message"] = err.e.message
        /\ err.out.sent[1]["success"] = FALSE
        /\ err.out.sent[1]["errors"] =
              <<[path |-> IF err.e.path = "" THEN "unknown" ELSE err.e.path,
                 message |-> err.e.message,
                 code |-> IF err.e.errorCode = "" THEN "UNKNOWN" ELSE err.e.errorCode]>>

C9_Witness ==
    /\ err.op = "resolve"
    /\ err.e.type = "ApiError"
    /\ err.e.path = ""
    /\ err.e.errorCode = ""
    /\ err.e.statusCode = 404
    /\ err.out.ran = <<"ApiError">>
    /\ Len(err.out.sent) = 1
    /\ err.out.sent[1]["errors"][1].path = "unknown"

----
(* catchAsync (src/src/utils/catchAsync.ts) and ExpressCRUDRouter._catchAsync *)
(* (src/src/infra/expressCRUDRouter.ts).  The wrapped handler either throws   *)
(* while it runs, or returns a promise that later rejects or resolves.        *)

Wrappers == {"catchAsync", "_catchAsync"}
Behaviours == {"throws", "rejects", "resolves"}
HandlerErrors ==
    { Thrown("Error", "", NULL, "boom", "", "", 0, "trace", <<>>),
      Thrown("string", "", NULL, "", "", "", 0, "", <<>>) }

\* catchAsync: (req, res, next) => { Promise.resolve(reqHandler(req, res, next)).catch(...) }
\* the state when the wrapper's synchronous part is over
catchAsync(behaviour, e) ==
    IF behaviour = "throws"
    THEN CaCall("catchAsync", behaviour, e, "done", <<>>, Some(e), NULL)
    ELSE CaCall("catchAsync", behaviour, e, "pending", <<>>, NULL, NULL)

\* _catchAsync: async (req, res, next) => { return Promise.resolve(handler(...)).catch(...) }
\* a throw inside the async function rejects the promise it returns
_catchAsync(behaviour, e) ==
    IF behaviour = "throws"
    THEN CaCall("_catchAsync", behaviour, e, "done", <<>>, NULL, Some(e))
    ELSE CaCall("_catchAsync", behaviour, e, "pending", <<>>, NULL, NULL)

\* .catch((err) => next(err)) once the handler's promise has settled
settle(c) ==
    [c EXCEPT !.pc = "done",
              !.nextCalls = IF c.behaviour = "rejects" THEN Append(@, c.e) ELSE @]

CallWrapped ==
    \E r \in Requests, w \in Wrappers, b \in Behaviours, e \in HandlerErrors :
        /\ ca[r].pc \in {"idle", "done"}
        /\ ca' = [ca EXCEPT ![r] = IF w = "catchAsync" THEN catchAsync(b, e)
                                   ELSE _catchAsync(b, e)]
        /\ UNCHANGED <<cfg, memory, transactionActive, transactionMemory, tx, last, svc, err, dto, snd, ctl, srv, rt, mw>>

Settle ==
    \E r \in Requests :
        /\ ca[r].pc = "pending"
        /\ ca' = [ca EXCEPT ![r] = settle(ca[r])]
        /\ UNCHANGED <<cfg, memory, transactionActive, transactionMemory, tx, last, svc, err, dto, snd, ctl, srv, rt, mw>>

InitAsync == InitSvc

NextAsync == CallWrapped \/ Settle

SpecAsync == InitAsync /\ [][NextAsync]_vars

\* C10: once a wrapped handler's call is over, a handler that threw or rejected with
\* e has had next called exactly once, with e, and nothing escaped the wrapper; a
\* handler that resolved has not had next called.
C10_WrapperForwardsToNext ==
    \A r \in Requests :
        ca[r].pc = "done" =>
            /\ ca[r].behaviour \in {"throws", "rejects"} =>
                  /\ ca[r].nextCalls = <<ca[r].e>>
                  /\ ca[r].escaped = NULL
                  /\ ca[r].rejected = NULL
            /\ ca[r].behaviour = "resolves" => ca[r].nextCalls = <<>>

----
(* BaseDTO: src/unnamed/part_009, with the schema and configuration of      *)
(* src/src/__tests__/base/testDTOImpl.ts.  A zod object schema is its shape: *)
(* for each key the type of the value and whether the key may be missing.    *)

\* values a request body can carry: a string is the attributes the schema checks
Str(len, email, uuid) == [kind |-> "string", len |-> len, email |-> email, uuid |-> uuid]
Date(t) == [kind |-> "date", t |-> t]
Bool(b) == [kind |-> "boolean", b |-> b]

\* the instants new Date() can return; a caller's own dates are earlier
Times == {1, 2}

\* testUserSchema, in the order of its keys
SchemaOrder == <<"id", "email", "password", "createdAt", "updatedAt", "isDeleted">>
SchemaKeys == {SchemaOrder[i] : i \in 1..Len(SchemaOrder)}

Field(type, optional) == [type |-> type, optional |-> optional]

testUserSchema ==
    [k \in SchemaKeys |->
        CASE k = "id" -> Field("uuid", FALSE)
          [] k = "email" -> Field("email", FALSE)
          [] k = "password" -> Field("min8", FALSE)
          [] k = "createdAt" -> Field("date", FALSE)
          [] k = "updatedAt" -> Field("date", FALSE)
          [] k = "isDeleted" -> Field("boolean", FALSE)]

\* z.uuid(), z.email(), z.string().min(8), z.date(), z.boolean()
valid(type, v) ==
    CASE type = "uuid" -> v.kind = "string" /\ v.uuid
      [] type = "email" -> v.kind = "string" /\ v.email
      [] type = "min8" -> v.kind = "string" /\ v.len >= 8
      [] type = "date" -> v.kind = "date"
      [] type = "boolean" -> v.kind = "boolean"

\* the commonFields a DTOConfig can declare (idField is required)
DTOConfigs ==
    [idField : {"id"}, createdAtField : {"createdAt", NONE},
     updatedAtField : {"updatedAt", NONE}, isDeletedField : {"isDeleted", NONE}]

\* schema.omit(omitObject)
omit(shape, keys) == [k \in (DOMAIN shape) \ keys |-> shape[k]]

\* schema.partial()
partial(shape) == [k \in DOMAIN shape |-> Field(shape[k].type, TRUE)]

\* the keys of a schema that fail on data
badKeys(shape, data) ==
    {k \in DOMAIN shape :
        IF k \in DOMAIN data THEN ~valid(shape[k].type, data[k]) ELSE ~shape[k].optional}

\* schema.safeParse(data) of an object schema: unknown keys are stripped
safeParse(shape, data) ==
    LET bad == SelectSeq(SchemaOrder, LAMBDA k : k \in badKeys(shape, data))
    IN  [success |-> bad = <<>>,
         data |-> [k \in (DOMAIN data) \cap (DOMAIN shape) |-> data[k]],
         issues |-> [i \in 1..Len(bad) |->
                       [path |-> <<bad[i]>>, message |-> "Invalid input"]]]

ZodError(issues) == [type |-> "ZodError", issues |-> issues]

DtoOut(threw, result, steps) == [threw |-> threw, result |-> result, steps |-> steps]

\* BaseDTO.parse
parse(shape, data, steps) ==
    LET r == safeParse(shape, data)
    IN  IF ~r.success
        THEN DtoOut(Some(ZodError(r.issues)), EmptyObj, Append(steps, "parse"))
        ELSE DtoOut(NULL, r.data, Append(steps, "parse"))

\* the keys the configuration declares, "" left out
declared(names) == names \ {NONE}

\* mutant of createSchema: the schema is used whole
createSchema_noOmit(config) == omit(testUserSchema, {})

\* BaseDTO.createSchema
createSchema(config) ==
    omit(testUserSchema,
         declared({config.idField, config.createdAtField, config.updatedAtField,
                   config.isDeletedField}))

\* mutant of updateSchema: nothing is omitted
updateSchema_noOmit(config) == omit(partial(testUserSchema), {})

\* BaseDTO.updateSchema
updateSchema(config) ==
    omit(partial(testUserSchema), declared({config.idField, config.createdAtField}))

\* BaseDTO.toCreateDTO
toCreateDTO(config, entity) == parse(createSchema(config), entity, <<>>)

\* mutant of toUpdateDTO: no check for an empty object
toUpdateDTO_noEmptyCheck(config, entity, now) ==
    IF config.updatedAtField # NONE
    THEN parse(updateSchema(config), Spread(entity, Obj1(config.updatedAtField, Date(now))),
               <<"stamp">>)
    ELSE parse(updateSchema(config), entity, <<>>)

\* BaseDTO.toUpdateDTO; steps records the timestamp injection and the schema evaluation
toUpdateDTO(config, entity, now) ==
    IF DOMAIN entity = {}
    THEN DtoOut(Some(ApiError(400, "Must update at least one field", "body", "BAD_REQUEST")),
                EmptyObj, <<>>)
    ELSE IF config.updatedAtField # NONE
    THEN parse(updateSchema(config), Spread(entity, Obj1(config.updatedAtField, Date(now))),
               <<"stamp">>)
    ELSE parse(updateSchema(config), entity, <<>>)

\* request bodies: each key absent (0) or carrying one of its values
InputKeys == SchemaKeys \cup {"role"}

Val(k, n) ==
    CASE k = "id" -> IF n = 1 THEN Str(36, FALSE, TRUE) ELSE Str(3, FALSE, FALSE)
      [] k = "email" -> IF n = 1 THEN Str(15, TRUE, FALSE) ELSE Str(12, FALSE, FALSE)
      [] k = "password" -> IF n = 1 THEN Str(11, FALSE, FALSE) ELSE Str(5, FALSE, FALSE)
      [] k = "createdAt" -> IF n = 1 THEN Date(0) ELSE Str(10, FALSE, FALSE)
      [] k = "updatedAt" -> IF n = 1 THEN Date(0) ELSE Str(10, FALSE, FALSE)
      [] k = "isDeleted" -> IF n = 1 THEN Bool(TRUE) ELSE Str(4, FALSE, FALSE)
      [] k = "role" -> Str(5, FALSE, FALSE)

Choices == {c \in [InputKeys -> {0, 1, 2}] : c["role"] # 2}

Body(c) == [k \in {x \in InputKeys : c[x] # 0} |-> Val(k, c[k])]

\* a call a behaviour can make: the method and its arguments
DtoCall(method, config, entity, now) ==
    [op |-> "call", method |-> method, config |-> config, entity |-> entity, now |-> now]

ToCreateDTO ==
    /\ dto.op = "call"
    /\ dto.method = "toCreateDTO"
    /\ dto' = [op |-> "toCreateDTO", config |-> dto.config, entity |-> dto.entity,
               now |-> dto.now, out |-> toCreateDTO(dto.config, dto.entity)]
    /\ UNCHANGED <<cfg, memory, transactionActive, transactionMemory, tx, last, svc, err,
                   ca, snd, ctl, srv, rt, mw>>

ToUpdateDTO ==
    /\ dto.op = "call"
    /\ dto.method = "toUpdateDTO"
    /\ dto' = [op |-> "toUpdateDTO", config |-> dto.config, entity |-> dto.entity,
               now |-> dto.now, out |-> toUpdateDTO(dto.config, dto.entity, dto.now)]
    /\ UNCHANGED <<cfg, memory, transactionActive, transactionMemory, tx, last, svc, err,
                   ca, snd, ctl, srv, rt, mw>>

InitDto ==
    /\ cfg = [kind |-> "test", isDeletedField |-> "isDeleted"]
    /\ memory = <<>>
    /\ transactionActive = FALSE
    /\ transactionMemory = {}
    /\ tx = TxIdle
    /\ last = NoCall
    /\ svc = SvcIdle
    /\ err = ErrIdle
    /\ ca = CaIdle
    /\ \/ \E config \in DTOConfigs, c \in Choices :
             dto = DtoCall("toCreateDTO", config, Body(c), 0)
       \/ \E config \in DTOConfigs, c \in Choices, now \in Times :
             dto = DtoCall("toUpdateDTO", config, Body(c), now)
    /\ snd = SndIdle
    /\ ctl = CtlIdle
    /\ srv = SrvIdle
    /\ rt = RtIdle
    /\ mw = MwIdle

NextDto == ToCreateDTO \/ ToUpdateDTO

SpecDto == InitDto /\ [][NextDto]_vars

\* C11: toUpdateDTO of an object with no entries throws the 400 BAD_REQUEST ApiError,
\* before the timestamp is injected and before the update schema is evaluated.
C11_EmptyUpdateRejectedFirst ==
    (dto.op = "toUpdateDTO" /\ DOMAIN dto.entity = {}) =>
        /\ dto.out.threw # NULL
        /\ dto.out.threw[1].type = "ApiError"
        /\ dto.out.threw[1].statusCode = 400
        /\ dto.out.threw[1].errorCode = "BAD_REQUEST"
        /\ dto.out.steps = <<>>

C11_Witness ==
    /\ dto.op = "toUpdateDTO"
    /\ DOMAIN dto.entity = {}
    /\ dto.config.updatedAtField = "updatedAt"
    /\ dto.out.threw # NULL
    /\ dto.out.threw[1].statusCode = 400

\* C12: what toCreateDTO returns has none of the configured auto-field keys, and an
\* input that fails the create schema (the schema minus the auto fields) gets a
\* ZodError instead of a result.
C12_CreateStripsAutoFields ==
    dto.op = "toCreateDTO" =>
        LET auto == declared({dto.config.idField, dto.config.createdAtField,
                              dto.config.updatedAtField, dto.config.isDeletedField})
            fits == \A k \in SchemaKeys \ auto :
                        k \in DOMAIN dto.entity /\ valid(testUserSchema[k].type, dto.entity[k])
        IN  /\ dto.out.threw = NULL => (DOMAIN dto.out.result) \cap auto = {}
            /\ ~fits => (dto.out.threw # NULL /\ dto.out.threw[1].type = "ZodError")
            /\ fits => dto.out.threw = NULL

C12_Witness ==
    /\ dto.op = "toCreateDTO"
    /\ dto.config.isDeletedField = "isDeleted"
    /\ dto.config.updatedAtField = "updatedAt"
    /\ {"id", "isDeleted", "updatedAt"} \subseteq DOMAIN dto.entity
    /\ dto.out.threw = NULL
    /\ DOMAIN dto.out.result = {"email", "password"}

\* C13: what toUpdateDTO returns for a non-empty input has no identifier and no
\* created-at key; no other schema field is required; a configured updated-at field
\* holds the time of the call whatever the caller supplied, and without one the DTO
\* adds no timestamp.
C13_UpdateStampsAndOmits ==
    (dto.op = "toUpdateDTO" /\ DOMAIN dto.entity # {}) =>
        LET immutable == declared({dto.config.idField, dto.config.createdAtField})
            stamped == declared({dto.config.updatedAtField})
            checked == ((DOMAIN dto.entity) \cap SchemaKeys) \ (immutable \cup stamped)
        IN  /\ dto.out.threw = NULL <=>
                  \A k \in checked : valid(testUserSchema[k].type, dto.entity[k])
            /\ dto.out.threw = NULL =>
                  /\ (DOMAIN dto.out.result) \cap immutable = {}
                  /\ \A k \in stamped : dto.out.result[k] = Date(dto.now)
                  /\ stamped = {} =>
                        \A k \in DOMAIN dto.out.result : dto.out.result[k] = dto.entity[k]

C13_Witness ==
    /\ dto.op = "toUpdateDTO"
    /\ dto.config.updatedAtField = "updatedAt"
    /\ dto.config.createdAtField = "createdAt"
    /\ {"id", "createdAt", "updatedAt", "email"} \subseteq DOMAIN dto.entity
    /\ dto.entity["updatedAt"] = Date(0)
    /\ dto.now = 2
    /\ dto.out.threw = NULL
    /\ dto.out.result["updatedAt"] = Date(2)
    /\ "id" \notin DOMAIN dto.out.result

----
(* BaseService create, update, delete, findAll, findById over a DTO and a   *)
(* DAO whose answers are given: src/src/base/baseService.ts holds two       *)
(* definitions of the class (lines 7-56 and 107-255).                       *)

\* the two definitions of BaseService in baseService.ts
ServiceDefs == {"first", "second"}

\* what a DAO method settles with: a rejection, or its value
DaoThrew == [threw |-> Some([type |-> "Error", message |-> "dao"]), ret |-> NULL]
DaoRet(r) == [threw |-> NULL, ret |-> r]

SvcEntity(id) ==
    [k \in {"id", "email", "password"} |->
        CASE k = "id" -> Str(36, FALSE, TRUE)
          [] k = "email" -> Str(15, TRUE, FALSE)
          [] k = "password" -> Str(IF id = "a" THEN 11 ELSE 12, FALSE, FALSE)]

\* dao.insert / update / delete / findById settle with an entity, null or a rejection
DaoOutcomes == {DaoThrew, DaoRet(NULL), DaoRet(Some(SvcEntity("a")))}

\* dao.findAll settles with an array or a rejection
DaoLists == {DaoThrew, DaoRet(<<>>), DaoRet(<<SvcEntity("a")>>),
             DaoRet(<<SvcEntity("a"), SvcEntity("b")>>)}

SvcCall(fn, id, arg) == [fn |-> fn, id |-> id, arg |-> arg]

SvcOut(calls, threw, result) == [calls |-> calls, threw |-> threw, result |-> result]

\* _formatOutput applied to what the DAO resolved to, null included
formatResult(fmt, r) ==
    IF r = NULL
    THEN IF fmt = "mock" THEN Some(_formatOutput(fmt, EmptyObj)) ELSE NULL
    ELSE Some(_formatOutput(fmt, r[1]))

\* mutant of service_create: the DAO gets the caller's data, not the validated object
service_create_raw(fmt, config, data, dao) ==
    LET v == toCreateDTO(config, data)
        calls == <<SvcCall("toCreateDTO", "", data)>>
    IN  IF v.threw # NULL THEN SvcOut(calls, v.threw, NULL)
        ELSE IF dao.threw # NULL
        THEN SvcOut(Append(calls, SvcCall("insert", "", data)), dao.threw, NULL)
        ELSE SvcOut(Append(calls, SvcCall("insert", "", data)), NULL,
                    formatResult(fmt, dao.ret))

\* BaseService.create with _create
service_create(fmt, config, data, dao) ==
    LET v == toCreateDTO(config, data)
        calls == <<SvcCall("toCreateDTO", "", data)>>
    IN  IF v.threw # NULL THEN SvcOut(calls, v.threw, NULL)
        ELSE IF dao.threw # NULL
        THEN SvcOut(Append(calls, SvcCall("insert", "", v.result)), dao.threw, NULL)
        ELSE SvcOut(Append(calls, SvcCall("insert", "", v.result)), NULL,
                    formatResult(fmt, dao.ret))

\* BaseService.update with _update
service_update(fmt, config, id, data, now, dao) ==
    LET v == toUpdateDTO(config, data, now)
        calls == <<SvcCall("toUpdateDTO", "", data)>>
    IN  IF v.threw # NULL THEN SvcOut(calls, v.threw, NULL)
        ELSE IF dao.threw # NULL
        THEN SvcOut(Append(calls, SvcCall("update", id, v.result)), dao.threw, NULL)
        ELSE SvcOut(Append(calls, SvcCall("update", id, v.result)), NULL,
                    formatResult(fmt, dao.ret))

\* BaseService.delete with _delete: the first definition returns what _delete resolved to
service_delete(def, fmt, id, dao) ==
    LET calls == <<SvcCall("delete", id, EmptyObj)>>
    IN  IF dao.threw # NULL THEN SvcOut(calls, dao.threw, NULL)
        ELSE IF def = "first" THEN SvcOut(calls, NULL, dao.ret)
        ELSE SvcOut(calls, NULL, formatResult(fmt, dao.ret))

\* BaseService.findAll with _findAll
service_findAll(fmt, filter, dao) ==
    LET calls == <<SvcCall("findAll", "", filter)>>
    IN  IF dao.threw # NULL THEN SvcOut(calls, dao.threw, <<>>)
        ELSE SvcOut(calls, NULL, [i \in 1..Len(dao.ret) |-> _formatOutput(fmt, dao.ret[i])])

\* request bodies for the service: email, password, updatedAt and isDeleted, each
\* absent or one of its two values
SvcBodies ==
    {Body(c) : c \in {x \in Choices : x["id"] = 0 /\ x["createdAt"] = 0
                                      /\ x["role"] = 0}}

SvcConfigs ==
    {c \in DTOConfigs : c.createdAtField = "createdAt" /\ c.isDeletedField = "isDeleted"}

\* a call of the service: its arguments, what the DAO will settle with, where the
\* call stands (pc), the validated object once there is one, and what it has done
SvcReq(method, def, fmt, config, id, data, now, dao) ==
    [pc |-> "call", method |-> method, def |-> def, fmt |-> fmt, config |-> config,
     id |-> id, data |-> data, now |-> now, dao |-> dao, dto |-> NULL,
     out |-> SvcOut(<<>>, NULL, NULL)]

\* the calls a behaviour can make on the service
SvcRequests ==
    UNION { { SvcReq("create", def, fmt, config, "", data, 0, dao) :
                data \in SvcBodies, dao \in DaoOutcomes }
            \cup { SvcReq("update", def, fmt, config, "a", data, now, dao) :
                     data \in SvcBodies, now \in Times, dao \in DaoOutcomes }
            \cup { SvcReq("delete", def, fmt, config, id, EmptyObj, 0, dao) :
                     id \in Ids, dao \in DaoOutcomes }
            \cup { SvcReq("findAll", def, fmt, config, "", data, 0, dao) :
                     data \in {EmptyObj, Obj1("email", Str(15, TRUE, FALSE))},
                     dao \in DaoLists }
            \cup { SvcReq("findById", def, fmt, config, id, EmptyObj, 0, dao) :
                     id \in Ids, dao \in {DaoRet(NULL), DaoRet(Some(SvcEntity("a")))} } :
            def \in ServiceDefs, fmt \in Formatters, config \in SvcConfigs }

\* the call another caller makes while the first is in flight
SvcOverlapping ==
    { q \in SvcRequests :
        /\ q.method \in {"create", "update"}
        /\ q.def = "second" /\ q.fmt = "mock" /\ q.now \in {0, 1}
        /\ q.config.updatedAtField = "updatedAt"
        /\ q.data = Body([k \in InputKeys |-> IF k \in {"email", "password"} THEN 1 ELSE 0])
        /\ q.dao = DaoRet(Some(SvcEntity("a"))) }

\* the whole call, as its caller sees it once it has settled
service_outcome(q) ==
    CASE q.method = "create" -> service_create(q.fmt, q.config, q.data, q.dao)
      [] q.method = "update" ->
            service_update(q.fmt, q.config, q.id, q.data, q.now, q.dao)
      [] q.method = "delete" -> service_delete(q.def, q.fmt, q.id, q.dao)
      [] q.method = "findAll" -> service_findAll(q.fmt, q.data, q.dao)
      [] q.method = "findById" ->
            LET r == service_findById(q.fmt, q.config.isDeletedField, q.id, q.dao.ret)
            IN  SvcOut(<<SvcCall("findById", q.id, EmptyObj)>>, r.threw, r.result)

\* the call's first turn, up to its first await that yields: _create and _update
\* validate (a throw rejects the call there and then), the others call the DAO
service_called(q) ==
    LET whole == service_outcome(q)
        first == SvcOut(<<whole.calls[1]>>, NULL, NULL)
    IN  IF q.method \in {"create", "update"}
        THEN IF Len(whole.calls) = 1
             THEN [q EXCEPT !.pc = "done", !.out = whole]
             ELSE [q EXCEPT !.pc = "validated", !.dto = Some(whole.calls[2].arg),
                            !.out = first]
        ELSE [q EXCEPT !.pc = "awaiting", !.out = first]

\* the turn after the validation: dao.insert(dto) / dao.update(id, dto) is called
service_write(q) ==
    [q EXCEPT !.pc = "awaiting",
              !.out = SvcOut(SubSeq(service_outcome(q).calls, 1, 2), NULL, NULL)]

\* the turn after the DAO's promise has settled: the result is formatted and returned
service_settled(q) == [q EXCEPT !.pc = "done", !.out = service_outcome(q)]

SvcStep(r, q) ==
    /\ svc' = [svc EXCEPT ![r] = q]
    /\ UNCHANGED <<cfg, memory, transactionActive, transactionMemory, tx, last, err, ca,
                   dto, snd, ctl, srv, rt, mw>>

ServiceCreate ==
    \E r \in Requests :
        /\ svc[r].pc = "call" /\ svc[r].method = "create"
        /\ SvcStep(r, service_called(svc[r]))

ServiceUpdate ==
    \E r \in Requests :
        /\ svc[r].pc = "call" /\ svc[r].method = "update"
        /\ SvcStep(r, service_called(svc[r]))

ServiceDelete ==
    \E r \in Requests :
        /\ svc[r].pc = "call" /\ svc[r].method = "delete"
        /\ SvcStep(r, service_called(svc[r]))

ServiceFindAll ==
    \E r \in Requests :
        /\ svc[r].pc = "call" /\ svc[r].method = "findAll"
        /\ SvcStep(r, service_called(svc[r]))

ServiceGet ==
    \E r \in Requests :
        /\ svc[r].pc = "call" /\ svc[r].method = "findById"
        /\ SvcStep(r, service_called(svc[r]))

ServiceWrite ==
    \E r \in Requests :
        /\ svc[r].pc = "validated"
        /\ SvcStep(r, service_write(svc[r]))

ServiceSettled ==
    \E r \in Requests :
        /\ svc[r].pc = "awaiting"
        /\ SvcStep(r, service_settled(svc[r]))

InitOps ==
    /\ cfg = [kind |-> "test", isDeletedField |-> "isDeleted"]
    /\ memory = <<>>
    /\ transactionActive = FALSE
    /\ transactionMemory = {}
    /\ tx = TxIdle
    /\ last = NoCall
    /\ \E q1 \in SvcRequests, q2 \in SvcOverlapping :
          svc = [r \in Requests |-> IF r = 1 THEN q1 ELSE q2]
    /\ err = ErrIdle
    /\ ca = CaIdle
    /\ dto = DtoIdle
    /\ snd = SndIdle
    /\ ctl = CtlIdle
    /\ srv = SrvIdle
    /\ rt = RtIdle
    /\ mw = MwIdle

\* two calls of the service in flight, their turns interleaved
NextOps ==
    \/ ServiceCreate
    \/ ServiceUpdate
    \/ ServiceDelete
    \/ ServiceFindAll
    \/ ServiceGet
    \/ ServiceWrite
    \/ ServiceSettled

SpecOps == InitOps /\ [][NextOps]_vars

\* C14: create and update call the DAO write only after the DTO validation has
\* returned, with exactly the validated object; when validation throws there is no
\* DAO write and the caller gets the validation error.  This holds for each call
\* at every turn, whatever another call in flight is doing.
C14_ValidateThenWrite ==
    \A r \in Requests :
        (svc[r].method \in {"create", "update"} /\ svc[r].pc # "call") =>
            LET q == svc[r]
                v == IF q.method = "create" THEN toCreateDTO(q.config, q.data)
                     ELSE toUpdateDTO(q.config, q.data, q.now)
                validate == IF q.method = "create" THEN "toCreateDTO" ELSE "toUpdateDTO"
                write == IF q.method = "create" THEN "insert" ELSE "update"
                calls == q.out.calls
            IN  /\ calls[1].fn = validate
                /\ \A i \in 1..Len(calls) : calls[i].fn = write => i > 1
                /\ IF v.threw # NULL
                   THEN q.pc = "done" /\ Len(calls) = 1 /\ q.out.threw = v.threw
                   ELSE /\ q.dto = Some(v.result)
                        /\ q.pc = "validated" => Len(calls) = 1
                        /\ q.pc \in {"awaiting", "done"} =>
                              (Len(calls) = 2 /\ calls[2].fn = write
                               /\ calls[2].arg = v.result)

\* C14 witness: an update whose validated patch carries the timestamp taken when it
\* was called has reached the DAO while another call was still between its
\* validation and its write
C14_Witness ==
    /\ svc[1].method = "update"
    /\ svc[1].pc = "awaiting"
    /\ svc[1].config.updatedAtField = "updatedAt"
    /\ "updatedAt" \in DOMAIN svc[1].data
    /\ Len(svc[1].out.calls) = 2
    /\ svc[1].out.calls[2].fn = "update"
    /\ svc[1].out.calls[2].arg # svc[1].data
    /\ svc[1].out.calls[2].arg["updatedAt"] = Date(svc[1].now)
    /\ svc[2].pc = "validated"

\* C15 (the claim as stated): what create, findById, findAll (each element), update
\* and delete return is the DTO formatter's output for the DAO's result, never the
\* DAO's entity itself.
C15_ResultsAreFormatted ==
    \A r \in Requests :
        (svc[r].pc = "done" /\ svc[r].out.threw = NULL) =>
            IF svc[r].method = "findAll"
            THEN svc[r].out.result =
                    [i \in 1..Len(svc[r].dao.ret) |-> toJSON(svc[r].fmt, svc[r].dao.ret[i])]
            ELSE svc[r].out.result =
                    IF svc[r].dao.ret = NULL
                    THEN IF svc[r].fmt = "mock"
                         THEN Some(toJSON(svc[r].fmt, EmptyObj)) ELSE NULL
                    ELSE Some(toJSON(svc[r].fmt, svc[r].dao.ret[1]))

----
(* ResponseSender.send, sendError and formatResponse called directly:       *)
(* src/src/utils/sendResponse.ts.                                           *)

\* ResponseSender.send: the body handed to res.status(statusCode).json
send(statusCode, message, data) ==
    [success |-> (statusCode >= 200 /\ statusCode < 300), statusCode |-> statusCode,
     message |-> message, data |-> data]

StatusCodes == {100, 199, 200, 201, 204, 299, 300, 301, 400, 404, 409, 500, 503}
Messages == {"OK", "Not Found"}
Payloads == {NULL, Some(SvcEntity("a")), Some(<<SvcEntity("a"), SvcEntity("b")>>)}
ErrorLists == {<<>>, <<Detail("id", "Not Found", "RESOURCE_NOT_FOUND")>>}
Stacks == {"", "trace"}

SndCall(method, env, statusCode, message, data, errors, stack) ==
    [op |-> "call", method |-> method, env |-> env, statusCode |-> statusCode,
     message |-> message, data |-> data, errors |-> errors, stack |-> stack]

SndDone(out) ==
    /\ snd' = [snd EXCEPT !.op = snd.method] @@ [out |-> out]
    /\ UNCHANGED <<cfg, memory, transactionActive, transactionMemory, tx, last, svc, err,
                   ca, dto, ctl, srv, rt, mw>>

Send ==
    /\ snd.op = "call" /\ snd.method = "send"
    /\ SndDone(send(snd.statusCode, snd.message, snd.data))

SendError ==
    /\ snd.op = "call" /\ snd.method = "sendError"
    /\ SndDone(sendError(snd.env, snd.statusCode, snd.message, snd.errors, snd.stack))

FormatResponse ==
    /\ snd.op = "call" /\ snd.method = "formatResponse"
    /\ SndDone(formatResponse(snd.env, snd.statusCode, snd.message, snd.data, snd.errors,
                               snd.stack))

InitSend ==
    /\ cfg = [kind |-> "test", isDeletedField |-> "isDeleted"]
    /\ memory = <<>>
    /\ transactionActive = FALSE
    /\ transactionMemory = {}
    /\ tx = TxIdle
    /\ last = NoCall
    /\ svc = SvcIdle
    /\ err = ErrIdle
    /\ ca = CaIdle
    /\ dto = DtoIdle
    /\ \E env \in Envs, sc \in StatusCodes, m \in Messages :
          \/ \E d \in Payloads :
                /\ env = [loadedInProduction |-> FALSE, production |-> FALSE]
                /\ snd = SndCall("send", env, sc, m, d, <<>>, "")
          \/ \E e \in ErrorLists, st \in Stacks :
                snd = SndCall("sendError", env, sc, m, NULL, e, st)
          \/ \E d \in Payloads, e \in {NULL} \cup {Some(l) : l \in ErrorLists}, st \in Stacks :
                snd = SndCall("formatResponse", env, sc, m, d, e, st)
    /\ ctl = CtlIdle
    /\ srv = SrvIdle
    /\ rt = RtIdle
    /\ mw = MwIdle

NextSend == Send \/ SendError \/ FormatResponse

SpecSend == InitSend /\ [][NextSend]_vars

\* C16: in every envelope of send, sendError and formatResponse, success is true
\* exactly when 200 <= statusCode < 300.
C16_SuccessFollowsStatus ==
    snd.op \in {"send", "sendError", "formatResponse"} =>
        (snd.out["success"] <=> (snd.out["statusCode"] >= 200 /\ snd.out["statusCode"] < 300))

\* C17: when the mode is production at the time resolve handles the error, the body
\* it sends has no stack field, whatever entry or fallback built the envelope and
\* whatever the mode was when the module was loaded.
C17_NoStackInProduction ==
    (err.op = "resolve" /\ err.env.production) =>
        \A i \in 1..Len(err.out.sent) : "stack" \notin DOMAIN err.out.sent[i]

C17_Witness ==
    /\ err.op = "resolve"
    /\ err.env.production
    /\ ~err.env.loadedInProduction
    /\ err.e.stack # ""
    /\ err.out.ran = <<"Error">>
    /\ Len(err.out.sent) = 1
    /\ "stack" \notin DOMAIN err.out.sent[1]

\* C18: a known-request error with code P2002 is answered by the P2002 entry, never
\* the generic database-error entry, with statusCode 409 and one detail of code
\* DUPLICATE_ENTRY whose path is the second-to-last "_"-separated segment of
\* meta.target, "unknown" when the name has fewer than two segments or is missing.
C18_DuplicateKeyAnswer ==
    (err.op = "resolve" /\ err.e.type = "PrismaClientKnownRequestError"
     /\ err.e.code = "P2002") =>
        LET named == err.e.meta # NULL /\ err.e.meta[1].target # NULL
            t == IF named THEN err.e.meta[1].target[1] ELSE <<>>
            seps == {i \in 1..Len(t) : t[i] = "_"}
            detail == err.out.sent[1]["errors"][1]
        IN  /\ err.out.ran = <<"P2002">>
            /\ err.out.threw = ""
            /\ Len(err.out.sent) = 1
            /\ err.out.sent[1]["statusCode"] = 409
            /\ Len(err.out.sent[1]["errors"]) = 1
            /\ detail.code = "DUPLICATE_ENTRY"
            /\ IF seps = {}
               THEN detail.path = "unknown"
               ELSE \E j \in seps, i \in 0..Len(t) :
                      /\ \A k \in seps : k <= j
                      /\ i < j
                      /\ i = 0 \/ i \in seps
                      /\ \A k \in seps : ~(i < k /\ k < j)
                      /\ detail.path = Concat(SubSeq(t, i + 1, j - 1))

C18_Witness ==
    /\ err.op = "resolve"
    /\ err.e.type = "PrismaClientKnownRequestError"
    /\ err.e.code = "P2002"
    /\ err.e.meta = Some(Meta(Some(<<"User", "_", "email", "_", "key">>)))
    /\ err.out.ran = <<"P2002">>
    /\ err.out.sent[1]["errors"][1].path = "email"

----
(* BaseController: src/src/base/baseController.ts (lines 43-176; the second *)
(* definition at 186-277 has the same handlers).  The service's answer is    *)
(* given; a query parameter is its text, "" when it is not supplied.         *)

\* JSON values
JNum(n) == [t |-> "number", n |-> n]
JObj(o) == [t |-> "object", o |-> o]

\* JSON.parse(text) on the texts a query can carry; String(undefined) is "undefined"
JSONparse(text) ==
    CASE text = "0" -> [threw |-> NULL, value |-> JNum(0)]
      [] text = "5" -> [threw |-> NULL, value |-> JNum(5)]
      [] text = "10" -> [threw |-> NULL, value |-> JNum(10)]
      [] text = "{}" -> [threw |-> NULL, value |-> JObj(EmptyObj)]
      [] text = "{\"email\":\"x\"}" -> [threw |-> NULL, value |-> JObj(Obj1("email", "x"))]
      [] text = "{\"email\":1}" -> [threw |-> NULL, value |-> JObj(Obj1("email", 1))]
      [] OTHER -> [threw |-> Some([type |-> "SyntaxError", message |-> text]),
                   value |-> JObj(EmptyObj)]

\* a value used as a condition: 0 is the only falsy value JSONparse yields here
truthy(v) == ~(v.t = "number" /\ v.n = 0)

\* String(req.query[name])
StringOf(text) == IF text = NONE THEN "undefined" ELSE text

Queries ==
    [filter : {NONE, "{}", "{\"email\":\"x\"}"}, limit : {NONE, "10", "0"},
     skip : {NONE, "5", "0"}, sort : {NONE, "{\"email\":1}", "email"}]

\* what the service settles with: a rejection, or its value
SvcThrew ==
    [threw |-> Some(ApiError(404, "Entity not found for ID: a", "id", "RESOURCE_NOT_FOUND")),
     ret |-> NULL]
SvcResults == {SvcThrew, DaoRet(NULL), DaoRet(Some(SvcEntity("a")))}
SvcLists == {SvcThrew, DaoRet(<<>>), DaoRet(<<SvcEntity("a"), SvcEntity("b")>>)}

CtlOut(calls, sent, threw) == [calls |-> calls, sent |-> sent, threw |-> threw]

\* the handler once its service call has settled
respond(calls, service, statusCode, message) ==
    IF service.threw # NULL
    THEN CtlOut(calls, <<>>, service.threw)
    ELSE CtlOut(calls, <<send(statusCode, message, service.ret)>>, NULL)

\* BaseController.getAll; a parameter that is not supplied leaves undefined, which is
\* falsy as JNum(0) is
controller_getAll(query, service) ==
    LET filter == IF query.filter # NONE THEN JSONparse(StringOf(query.filter))
                  ELSE [threw |-> NULL, value |-> JObj(EmptyObj)]
        limit == IF query.limit # NONE THEN JSONparse(StringOf(query.limit))
                 ELSE [threw |-> NULL, value |-> JNum(0)]
        skip == IF query.skip # NONE THEN JSONparse(StringOf(query.limit))
                ELSE [threw |-> NULL, value |-> JNum(0)]
        sort == IF query.sort # NONE THEN JSONparse(StringOf(query.sort))
                ELSE [threw |-> NULL, value |-> JNum(0)]
        options ==
            Spread(Spread(IF truthy(limit.value) THEN Obj1("limit", limit.value) ELSE EmptyObj,
                          IF truthy(skip.value) THEN Obj1("skip", skip.value) ELSE EmptyObj),
                   IF truthy(sort.value) THEN Obj1("sort", sort.value) ELSE EmptyObj)
    IN  IF filter.threw # NULL THEN CtlOut(<<>>, <<>>, filter.threw)
        ELSE IF limit.threw # NULL THEN CtlOut(<<>>, <<>>, limit.threw)
        ELSE IF skip.threw # NULL THEN CtlOut(<<>>, <<>>, skip.threw)
        ELSE IF sort.threw # NULL THEN CtlOut(<<>>, <<>>, sort.threw)
        ELSE respond(<<[fn |-> "findAll", filter |-> filter.value, options |-> options]>>,
                     service, 200, "Successfully fetched data")

\* BaseController.getById
controller_getById(id, service) ==
    respond(<<[fn |-> "findById", id |-> id]>>, service, 200, "Successfully fetched data")

\* mutant of controller_post: answers 200
controller_post_200(body, service) ==
    respond(<<[fn |-> "create", data |-> body]>>, service, 200, "Successfully created data")

\* BaseController.post
controller_post(body, service) ==
    respond(<<[fn |-> "create", data |-> body]>>, service, 201, "Successfully created data")

\* BaseController.update
controller_update(id, body, service) ==
    respond(<<[fn |-> "update", id |-> id, data |-> body]>>, service, 200,
            "Successfully updated data")

\* BaseController.delete
controller_delete(id, service) ==
    respond(<<[fn |-> "delete", id |-> id]>>, service, 200, "Successfully deleted data")

\* a request a handler is called with: its inputs, what the service will settle
\* with, where the handler stands (pc), and what it has done
CtlReq(method, query, id, body, service) ==
    [pc |-> "call", method |-> method, query |-> query, id |-> id, body |-> body,
     service |-> service, out |-> CtlOut(<<>>, <<>>, NULL)]

NoQuery == [filter |-> NONE, limit |-> NONE, skip |-> NONE, sort |-> NONE]

CtlBodies == {Body(c) : c \in {x \in Choices : x["id"] = 0 /\ x["createdAt"] = 0
                                  /\ x["isDeleted"] = 0 /\ x["role"] = 0
                                  /\ x["updatedAt"] = 0 /\ x["password"] # 2}}

\* the requests a client can make
CtlRequests ==
    { CtlReq("getAll", q, "", EmptyObj, r) : q \in Queries, r \in SvcLists }
    \cup { CtlReq("getById", NoQuery, id, EmptyObj, r) : id \in Ids, r \in SvcResults }
    \cup { CtlReq("post", NoQuery, "", b, r) : b \in CtlBodies, r \in SvcResults }
    \cup { CtlReq("update", NoQuery, id, b, r) :
             id \in Ids, b \in CtlBodies, r \in SvcResults }
    \cup { CtlReq("delete", NoQuery, id, EmptyObj, r) : id \in Ids, r \in SvcResults }

\* the request another client makes while the first is in flight
CtlOverlapping ==
    { q \in CtlRequests :
        /\ q.query = NoQuery
        /\ q.id \in {"", "b"}
        /\ q.body \in {EmptyObj, Body([k \in InputKeys |-> IF k = "email" THEN 1 ELSE 0])}
        /\ q.service \in {SvcThrew, DaoRet(Some(SvcEntity("a"))),
                          DaoRet(<<SvcEntity("a"), SvcEntity("b")>>)} }

\* the handler run to its end
controller_outcome(q) ==
    CASE q.method = "getAll" -> controller_getAll(q.query, q.service)
      [] q.method = "getById" -> controller_getById(q.id, q.service)
      [] q.method = "post" -> controller_post(q.body, q.service)
      [] q.method = "update" -> controller_update(q.id, q.body, q.service)
      [] q.method = "delete" -> controller_delete(q.id, q.service)

\* the handler's first turn, up to `await this.service...`: the service has been
\* called and the handler has returned its promise; a query that does not decode
\* rejects the handler before any call
controller_called(q) ==
    LET whole == controller_outcome(q)
    IN  IF whole.calls = <<>>
        THEN [q EXCEPT !.pc = "done", !.out = whole]
        ELSE [q EXCEPT !.pc = "awaiting", !.out = CtlOut(whole.calls, <<>>, NULL)]

\* the turn after the service's promise has settled: ResponseSender.send, or the
\* rejection that catchAsync hands to next
controller_settled(q) == [q EXCEPT !.pc = "done", !.out = controller_outcome(q)]

CtlStep(r, q) ==
    /\ ctl' = [ctl EXCEPT ![r] = q]
    /\ UNCHANGED <<cfg, memory, transactionActive, transactionMemory, tx, last, svc, err,
                   ca, dto, snd, srv, rt, mw>>

GetAll ==
    \E r \in Requests :
        /\ ctl[r].pc = "call" /\ ctl[r].method = "getAll"
        /\ CtlStep(r, controller_called(ctl[r]))

GetById ==
    \E r \in Requests :
        /\ ctl[r].pc = "call" /\ ctl[r].method = "getById"
        /\ CtlStep(r, controller_called(ctl[r]))

Post ==
    \E r \in Requests :
        /\ ctl[r].pc = "call" /\ ctl[r].method = "post"
        /\ CtlStep(r, controller_called(ctl[r]))

Put ==
    \E r \in Requests :
        /\ ctl[r].pc = "call" /\ ctl[r].method = "update"
        /\ CtlStep(r, controller_called(ctl[r]))

Remove ==
    \E r \in Requests :
        /\ ctl[r].pc = "call" /\ ctl[r].method = "delete"
        /\ CtlStep(r, controller_called(ctl[r]))

\* the service promises of the requests in flight settle in any order
Respond ==
    \E r \in Requests :
        /\ ctl[r].pc = "awaiting"
        /\ CtlStep(r, controller_settled(ctl[r]))

InitCtl ==
    /\ cfg = [kind |-> "test", isDeletedField |-> "isDeleted"]
    /\ memory = <<>>
    /\ transactionActive = FALSE
    /\ transactionMemory = {}
    /\ tx = TxIdle
    /\ last = NoCall
    /\ svc = SvcIdle
    /\ err = ErrIdle
    /\ ca = CaIdle
    /\ dto = DtoIdle
    /\ snd = SndIdle
    /\ \E q1 \in CtlRequests, q2 \in CtlOverlapping :
          ctl = [r \in Requests |-> IF r = 1 THEN q1 ELSE q2]
    /\ srv = SrvIdle
    /\ rt = RtIdle
    /\ mw = MwIdle

\* two requests in flight, the turns of their handlers interleaved
NextCtl ==
    \/ GetAll
    \/ GetById
    \/ Post
    \/ Put
    \/ Remove
    \/ Respond

SpecCtl == InitCtl /\ [][NextCtl]_vars

\* C19 (the claim as stated): getAll calls service.findAll with the JSON-decoded
\* filter ({} when absent) and options whose limit, skip and sort are the
\* JSON-decoded parameters of the same name, each key present exactly when its
\* parameter was supplied.
C19_ListQueryDecoding ==
    \A r \in Requests :
        LET q == ctl[r]
            supplied == {k \in {"limit", "skip", "sort"} : q.query[k] # NONE}
            decodable == \A k \in supplied \cup {"filter"} :
                             q.query[k] # NONE => JSONparse(q.query[k]).threw = NULL
        IN  (q.method = "getAll" /\ q.pc # "call" /\ decodable) =>
                /\ Len(q.out.calls) = 1
                /\ q.out.calls[1].fn = "findAll"
                /\ q.out.calls[1].filter =
                      IF q.query.filter = NONE THEN JObj(EmptyObj)
                      ELSE JSONparse(q.query.filter).value
                /\ DOMAIN q.out.calls[1].options = supplied
                /\ \A k \in supplied : q.out.calls[1].options[k] = JSONparse(q.query[k]).value

\* C20: a handler whose service call succeeds sends exactly one envelope, success
\* true, the service result as data, statusCode 201 for post and 200 for the others;
\* a handler whose service call fails sends nothing; and no handler sends before
\* its own service call has settled, whatever another request in flight does.
C20_SuccessEnvelope ==
    \A r \in Requests :
        LET q == ctl[r]
        IN  /\ q.pc \in {"call", "awaiting"} => q.out.sent = <<>>
            /\ (q.pc = "done" /\ Len(q.out.calls) = 1) =>
                  IF q.service.threw # NULL
                  THEN q.out.sent = <<>>
                  ELSE /\ Len(q.out.sent) = 1
                       /\ q.out.sent[1].success = TRUE
                       /\ q.out.sent[1].data = q.service.ret
                       /\ q.out.sent[1].statusCode = IF q.method = "post" THEN 201 ELSE 200

\* C20 witness: a post has been answered 201 with the service's record while a
\* request that came later is still waiting for its service call
C20_Witness ==
    /\ ctl[1].method = "post"
    /\ ctl[1].pc = "done"
    /\ ctl[1].service.ret = Some(SvcEntity("a"))
    /\ Len(ctl[1].out.sent) = 1
    /\ ctl[1].out.sent[1].statusCode = 201
    /\ ctl[1].out.sent[1].data = Some(SvcEntity("a"))
    /\ ctl[2].pc = "awaiting"

----
(* ExpressServer (src/infra/expressServer.ts): the process that connects    *)
(* the database service, binds the HTTP listener with port retries and      *)
(* tears both down in shutdown().  One step per turn of the event loop: a   *)
(* step runs a callback or the continuation of an await up to the next      *)
(* await.  process.exit ends the process: nothing runs after it.  Every     *)
(* app.listen call makes a listener of its own, with its own 'error'        *)
(* listener and its own 'close' event; this.server is the latest of them.   *)

\* private maxRetries = 5
maxRetries == 5

\* the most shutdown() runs the environment's triggers may start
MaxRuns == 2

\* the most unhandled rejections the environment raises
MaxRejections == 1

\* the port handed to start(port)
Ports == {3000, 8080}

\* the database service handed to the constructor, with what connect() does
DbKinds == {"none", "ok", "connectFails"}

\* the codes of the listener's 'error' event
ErrorCodes == {"EADDRINUSE", "EACCES"}

\* one app.listen(port) call: its port, what became of the listen ("pending"
\* until the 'listening' callback or the 'error' event), the code of the
\* 'error' event, and where its close() stands: "open" while close() was never
\* called on it, "closing" between the first close() call and the 'close'
\* event, "closed" once 'close' was emitted, and "reclosing" when close() was
\* called again on a listener that had emitted 'close' and the 'close' event
\* of that call is still due
Attempt(port, status, code, close) ==
    [port |-> port, status |-> status, code |-> code, close |-> close]

\* one call of shutdown(): the instance it was called on, what called it, the
\* listener that was this.server when it was called (0 when there was none),
\* where it is suspended ("closing" at the await of the close callback,
\* "resolved" once that callback has run and the continuation is queued,
\* "disconnecting" at the await of disconnect), the steps it took, the
\* listeners of its instance
\* that were pending or bound when it called this.db?.disconnect(), and how
\* that call settled ("" until then, and when there is no database service)
Run(inst, trigger, listener, pc, trace, open) ==
    [inst |-> inst, trigger |-> trigger, listener |-> listener, pc |-> pc,
     trace |-> trace, open |-> open, settled |-> NONE]

\* new ExpressServer(app, db) for each of `instances` servers sharing db; the
\* constructor's handleProcessEvents registers one pair of process handlers
\* per instance.  Instance 1 is the one start(port) is called on.
ExpressServer(db, instances, port) ==
    [op |-> "server", db |-> db, instances |-> instances, port |-> port, pc |-> "constructed",
     conn |-> "idle", attempts |-> 0, listens |-> <<>>, runs |-> <<>>,
     disconnects |-> 0, rejections |-> 0, exit |-> NULL]

\* process.exit(code)
exit(s, code) == [s EXCEPT !.exit = Some(code)]

alive(s) == s.exit = NULL

\* this.server is set on instance 1 once tryListen has run
hasServer(s, inst) == inst = 1 /\ s.listens # <<>>

current(s) == s.listens[Len(s.listens)]

\* this.db?.disconnect() is a call only when a database service was supplied
disconnectStep(s) == IF s.db = "none" THEN <<>> ELSE <<"disconnect">>

disconnectCalls(s) == Len(disconnectStep(s))

\* the listeners of an instance that are pending or bound and have not emitted
\* 'close': only instance 1 ever listens
listening(s, inst) ==
    IF inst = 1
    THEN {j \in DOMAIN s.listens :
             /\ s.listens[j].status \in {"pending", "listening"}
             /\ s.listens[j].close \in {"open", "closing"}}
    ELSE {}

\* shutdown() at await this.db?.disconnect(), for run i
disconnect(s, i) ==
    [s EXCEPT !.runs[i].pc = "disconnecting",
              !.runs[i].trace = @ \o disconnectStep(s),
              !.runs[i].open = listening(s, s.runs[i].inst),
              !.disconnects = @ + disconnectCalls(s)]

\* server.close(cb): a 'close' event is due, also on a listener that has
\* emitted 'close' before
close(l) ==
    [l EXCEPT !.close = IF @ \in {"open", "closing"} THEN "closing" ELSE "reclosing"]

\* shutdown() up to its first await: with this.server set it calls close(cb) on
\* the listener that is this.server now and returns at the await of that
\* callback; without this.server it goes straight to this.db?.disconnect()
shutdown(s, inst, trigger) ==
    LET j == IF hasServer(s, inst) THEN Len(s.listens) ELSE 0
        called == [s EXCEPT !.runs = Append(@, Run(inst, trigger, j, "closing",
                                                   IF j = 0 THEN <<>> ELSE <<"close">>,
                                                   {}))]
    IN  IF j = 0
        THEN disconnect(called, Len(called.runs))
        ELSE [called EXCEPT !.listens[j] = close(@)]

\* the 'close' event of listener j: the callback of every shutdown() that
\* passed one to this listener's close runs resolve() and returns to the
\* event loop
listenerClosed(s, j) ==
    [s EXCEPT !.listens[j].close = "closed",
              !.runs = [i \in DOMAIN s.runs |->
                          IF s.runs[i].pc = "closing" /\ s.runs[i].listener = j
                          THEN [s.runs[i] EXCEPT !.pc = "resolved",
                                                 !.trace = Append(@, "closed")]
                          ELSE s.runs[i]]]

\* shutdown() after the disconnect settled: the log line when it was
\* fulfilled, the catch block when it was rejected, then finally
\* process.exit(0)
disconnectSettled(s, i, outcome) ==
    exit([s EXCEPT !.runs[i].pc = "done",
                   !.runs[i].settled = IF s.db = "none" THEN NONE ELSE outcome,
                   !.runs[i].trace = Append(@, "exit")], 0)

\* tryListen(port): close() on the previous listener, then app.listen(port)
\* becomes this.server.  The previous listener is one whose listen failed: it
\* holds no handle and tryListen passes no callback, so where no 'close' event
\* is due already, the one of this call follows in the same turn and runs
\* nothing.
tryListen(s, port) ==
    LET closed == IF hasServer(s, 1) /\ current(s).close = "open"
                  THEN [s EXCEPT !.listens[Len(s.listens)].close = "closed"]
                  ELSE s
    IN  [closed EXCEPT !.listens = Append(@, Attempt(port, "pending", NONE, "open"))]

\* the 'error' listener, retrying on the port that just failed
onError_samePort(s, code) ==
    LET f == [s EXCEPT !.listens[Len(s.listens)].status = "failed",
                       !.listens[Len(s.listens)].code = code]
    IN  IF code = "EADDRINUSE"
        THEN LET a == [f EXCEPT !.attempts = @ + 1]
             IN  IF a.attempts >= maxRetries
                 THEN shutdown(a, 1, "retryCeiling")
                 ELSE tryListen(a, current(s).port)
        ELSE shutdown(f, 1, "listenerError")

\* the 'error' listener tryListen installs on the listener: it asks neither
\* whether a shutdown() is under way nor whether close() was called
onError(s, code) ==
    LET f == [s EXCEPT !.listens[Len(s.listens)].status = "failed",
                       !.listens[Len(s.listens)].code = code]
    IN  IF code = "EADDRINUSE"
        THEN LET a == [f EXCEPT !.attempts = @ + 1]
             IN  IF a.attempts >= maxRetries
                 THEN shutdown(a, 1, "retryCeiling")
                 ELSE tryListen(a, current(s).port + 1)
        ELSE shutdown(f, 1, "listenerError")

\* start(port) up to await this.db?.connect()
start(s) == [s EXCEPT !.pc = "connecting",
                      !.conn = IF s.db = "none" THEN "idle" ELSE "pending"]

\* start(port) after the connect settled, were process.exit(1) to return
connectSettled_continues(s) ==
    IF s.db = "ok"
    THEN tryListen([s EXCEPT !.pc = "started", !.conn = "ok"], s.port)
    ELSE tryListen([s EXCEPT !.pc = "fatal",
                             !.conn = IF s.db = "none" THEN "idle" ELSE "failed"],
                   s.port)

\* start(port) after the connect settled: a rejected connect or a missing
\* database service ends in process.exit(1), otherwise tryListen(port)
connectSettled(s) ==
    IF s.db = "ok"
    THEN tryListen([s EXCEPT !.pc = "started", !.conn = "ok"], s.port)
    ELSE exit([s EXCEPT !.pc = "fatal",
                        !.conn = IF s.db = "none" THEN "idle" ELSE "failed"], 1)

\* process.on("uncaughtException"): each instance's handler calls shutdown()
uncaughtException(s) ==
    IF s.instances = 1
    THEN shutdown(s, 1, "uncaughtException")
    ELSE shutdown(shutdown(s, 1, "uncaughtException"), 2, "uncaughtException")

\* process.on("unhandledRejection"): each instance's handler logs
unhandledRejection(s) == [s EXCEPT !.rejections = @ + 1]

SrvStep(s) ==
    /\ srv' = s
    /\ UNCHANGED <<cfg, memory, transactionActive, transactionMemory, tx, last, svc, err,
                   ca, dto, snd, ctl, rt, mw>>

Serving == srv.op = "server" /\ alive(srv)

Start ==
    /\ Serving
    /\ srv.pc = "constructed"
    /\ SrvStep(start(srv))

ConnectSettled ==
    /\ Serving
    /\ srv.pc = "connecting"
    /\ SrvStep(connectSettled(srv))

\* the outcome of app.listen: the 'listening' callback, or an 'error' event,
\* which is delivered to the 'error' listener also when a shutdown() has called
\* close() on the listener in the meantime
ListenResult ==
    /\ Serving
    /\ srv.listens # <<>>
    /\ current(srv).status = "pending"
    /\ \/ /\ current(srv).close = "open"
          /\ SrvStep([srv EXCEPT !.listens[Len(srv.listens)].status = "listening"])
       \/ \E code \in ErrorCodes : SrvStep(onError(srv, code))

\* an 'error' event of a listener that is already bound
ListenerError ==
    /\ Serving
    /\ srv.listens # <<>>
    /\ current(srv).status = "listening"
    /\ current(srv).close \in {"open", "closing"}
    /\ SrvStep(onError(srv, "EACCES"))

UncaughtException ==
    /\ Serving
    /\ Len(srv.runs) + srv.instances <= MaxRuns
    /\ SrvStep(uncaughtException(srv))

UnhandledRejection ==
    /\ Serving
    /\ srv.rejections < MaxRejections
    /\ SrvStep(unhandledRejection(srv))

\* a direct call of shutdown() on one of the instances
DirectShutdown ==
    /\ Serving
    /\ Len(srv.runs) < MaxRuns
    /\ \E inst \in 1..srv.instances : SrvStep(shutdown(srv, inst, "direct"))

\* the 'close' event of a listener that close() was called on, the current one
\* or an earlier one, for the first time or again
ListenerClosed ==
    /\ Serving
    /\ \E j \in DOMAIN srv.listens :
          /\ srv.listens[j].close \in {"closing", "reclosing"}
          /\ SrvStep(listenerClosed(srv, j))

\* the continuation of a shutdown() whose close callback has run: it goes on
\* to await this.db?.disconnect(), in a later turn than the callback
CloseAwaited ==
    /\ Serving
    /\ \E i \in DOMAIN srv.runs :
          /\ srv.runs[i].pc = "resolved"
          /\ SrvStep(disconnect(srv, i))

DisconnectSettled ==
    /\ Serving
    /\ \E i \in DOMAIN srv.runs, outcome \in {"fulfilled", "rejected"} :
          /\ srv.runs[i].pc = "disconnecting"
          /\ SrvStep(disconnectSettled(srv, i, outcome))

InitServer ==
    /\ cfg = [kind |-> "test", isDeletedField |-> "isDeleted"]
    /\ memory = <<>>
    /\ transactionActive = FALSE
    /\ transactionMemory = {}
    /\ tx = TxIdle
    /\ last = NoCall
    /\ svc = SvcIdle
    /\ err = ErrIdle
    /\ ca = CaIdle
    /\ dto = DtoIdle
    /\ snd = SndIdle
    /\ ctl = CtlIdle
    /\ \E db \in DbKinds, n \in {1, 2}, p \in Ports :
          srv = ExpressServer(db, n, p)
    /\ rt = RtIdle
    /\ mw = MwIdle

NextServer ==
    \/ Start
    \/ ConnectSettled
    \/ ListenResult
    \/ ListenerError
    \/ UncaughtException
    \/ UnhandledRejection
    \/ DirectShutdown
    \/ ListenerClosed
    \/ CloseAwaited
    \/ DisconnectSettled

SpecServer == InitServer /\ [][NextServer]_vars

\* the event loop runs every continuation and callback that is ready: the
\* awaited connect settles and app.listen reports its outcome
SpecServerLive ==
    /\ SpecServer
    /\ WF_vars(Start)
    /\ WF_vars(ConnectSettled)
    /\ WF_vars(ListenResult)

\* C21: no listen attempt is made before connect() has completed
\* successfully; when connect fails or no database service was supplied the
\* process has exited with code 1 and no listener was ever bound.
C21_ListenOnlyAfterConnect ==
    srv.op = "server" =>
        /\ srv.listens # <<>> => srv.conn = "ok"
        /\ (srv.pc \notin {"constructed", "connecting"} /\ srv.db # "ok") =>
               (srv.exit = Some(1) /\ srv.listens = <<>>)

C21_Witness ==
    /\ srv.op = "server"
    /\ srv.db = "connectFails"
    /\ srv.conn = "failed"
    /\ srv.exit = Some(1)

\* the listen attempts that have not failed or been closed
active(s) == {i \in DOMAIN s.listens : s.listens[i].status \in {"pending", "listening"}}

triggered(s, trigger) == \E i \in DOMAIN s.runs : s.runs[i].trigger = trigger

C22_Safe ==
    srv.op = "server" =>
        /\ \A i \in DOMAIN srv.listens : srv.listens[i].port = srv.port + i - 1
        /\ Cardinality(active(srv)) <= 1
        /\ Len(srv.listens) <= maxRetries
        /\ \A i \in DOMAIN srv.listens :
              /\ (srv.listens[i].code = "EADDRINUSE" /\ i < maxRetries) =>
                     i < Len(srv.listens)
              /\ (srv.listens[i].code = "EADDRINUSE" /\ i >= maxRetries) =>
                     (i = Len(srv.listens) /\ triggered(srv, "retryCeiling"))
              /\ srv.listens[i].code = "EACCES" =>
                     (i = Len(srv.listens) /\ triggered(srv, "listenerError"))

\* start has ended: the process exited, the listener is bound, or a shutdown
\* has begun
C22_Ended ==
    /\ srv.op = "server"
    /\ \/ srv.exit # NULL
       \/ srv.runs # <<>>
       \/ srv.listens # <<>> /\ current(srv).status = "listening"

\* C22: the listen attempts are made on the consecutive ports p, p+1, ... one
\* at a time, each address-in-use failure below the retry ceiling is followed
\* by the attempt on the next port, the failure that reaches the ceiling and
\* any other listener error begin shutdown without a retry, there are never
\* more than maxRetries attempts, and start eventually ends listening or
\* shutting down (or exited).
C22_PortRetry == []C22_Safe /\ <>C22_Ended

\* C22 witness: a shutdown was requested while the first attempt was pending,
\* its address-in-use failure and the following ones were retried on the next
\* ports all the same, and the fifth failure reached the ceiling
C22_Witness ==
    /\ srv.op = "server"
    /\ Len(srv.listens) = maxRetries
    /\ srv.attempts = maxRetries
    /\ triggered(srv, "retryCeiling")
    /\ srv.runs[1].trigger = "uncaughtException"
    /\ srv.runs[1].listener = 1

IsPrefix(a, b) == Len(a) <= Len(b) /\ a = SubSeq(b, 1, Len(a))

\* the steps of a shutdown() run in the order the code takes them: the close
\* steps only with a listener, the disconnect only with a database service
order(s, run) ==
    (IF run.listener # 0 THEN <<"close", "closed">> ELSE <<>>)
        \o disconnectStep(s) \o <<"exit">>

\* C23 (the claim as stated): every run of shutdown takes its steps in the
\* order close requested, close completed, disconnect, exit; when a run calls
\* disconnect no listener of its server is pending or bound any more; and a run
\* whose disconnect has settled, fulfilled or rejected, has reached
\* process.exit(0).
C23_ShutdownOrder ==
    srv.op = "server" =>
        \A i \in DOMAIN srv.runs :
            LET run == srv.runs[i]
            IN  /\ IsPrefix(run.trace, order(srv, run))
                /\ (\E k \in DOMAIN run.trace : run.trace[k] = "disconnect") =>
                       run.open = {}
                /\ run.pc \notin {"closing", "resolved", "disconnecting"} =>
                       /\ run.trace = order(srv, run)
                       /\ srv.exit = Some(0)

\* C24: whatever triggers occur, the database service's disconnect is invoked
\* at most once per process, and an unhandled rejection starts no shutdown.
C24_DisconnectAtMostOnce ==
    srv.op = "server" =>
        /\ srv.disconnects <= 1
        /\ (srv.rejections > 0 /\ srv.runs # <<>>) =>
               \A i \in DOMAIN srv.runs : srv.runs[i].trigger # "unhandledRejection"

----
(* ExpressCRUDRouter (src/src/infra/expressCRUDRouter.ts) over the two       *)
(* definitions of BaseController in src/src/base/baseController.ts.  A path  *)
(* is the sequence of its pieces, "/" being a piece; a handler is named by   *)
(* what it does, "" standing for undefined; the router is the sequence of    *)
(* the layers of the express Router in the order they were added: a route    *)
(* with its handler stack, or (method "use") a router mounted by mergeRouter. *)

\* the most registerRoute calls made on a router after its construction
MaxRegistered == 1

\* the most mergeRouter calls made on a router after its construction
MaxMerged == 1

\* the two definitions of BaseController in baseController.ts
ControllerDefs == {"first", "second"}

\* the request handlers a controller object has, by property name
controller(def) ==
    IF def = "first"
    THEN [getAll |-> "list", getById |-> "getById", post |-> "create",
          update |-> "update", delete |-> "delete"]
    ELSE [get |-> "list", getById |-> "getById", post |-> "create",
          update |-> "update", delete |-> "delete"]

\* controller.name: undefined when the object has no such property
prop(o, name) == IF name \in DOMAIN o THEN o[name] ELSE NONE

\* this._catchAsync(handler): a new handler that calls the one it was given
Wrapped(h) == [wraps |-> h]

IRoute(path, method, h, middlewares) ==
    [path |-> path, method |-> method, handler |-> h, middlewares |-> middlewares]

Layer(method, path, stack) == [method |-> method, path |-> path, stack |-> stack]

\* path.startsWith("/") ? path : `/${path}`
normalizedPath(path) ==
    IF Len(path) > 0 /\ path[1] = "/" THEN path ELSE <<"/">> \o path

\* this.basePath === "/" ? normalizedPath : `${this.basePath}${normalizedPath}`
fullPath(basePath, path) ==
    IF basePath = <<"/">> THEN normalizedPath(path) ELSE basePath \o normalizedPath(path)

\* registerRoute(path, method, handler, middlewares = [])
registerRoute(r, path, method, h, middlewares) ==
    [r EXCEPT !.routes =
        Append(@, Layer(method, fullPath(r.basePath, path),
                        middlewares \o <<Wrapped(h)>>))]

\* another express Router, by the routes it holds
Mounted(other) == [mounts |-> other]

\* mergeRouter(router, path?): this._router.use(path, router) when path is truthy,
\* this._router.use(router) otherwise; <<>> stands for a path that is missing or ""
mergeRouter(r, other, path) ==
    [r EXCEPT !.routes = Append(@, Layer("use", path, <<Mounted(other)>>))]

\* registerRoutes(routes): registerRoute for each, in order
RECURSIVE registerRoutes(_, _)
registerRoutes(r, routes) ==
    IF routes = <<>> THEN r
    ELSE registerRoutes(registerRoute(r, Head(routes).path, Head(routes).method,
                                      Head(routes).handler, Head(routes).middlewares),
                        Tail(routes))

\* _registerCRUDRoutes(): the five routes read off this.controller
_registerCRUDRoutes(r) ==
    registerRoutes(r,
        << IRoute(<<"/">>, "get", prop(r.controller, "getAll"), <<>>),
           IRoute(<<"/", ":id">>, "get", prop(r.controller, "getById"), <<>>),
           IRoute(<<"/">>, "post", prop(r.controller, "post"), <<>>),
           IRoute(<<"/", ":id">>, "put", prop(r.controller, "update"), <<>>),
           IRoute(<<"/", ":id">>, "delete", prop(r.controller, "delete"), <<>>) >>)

\* new ExpressCRUDRouter(config); config.basePath || "/" takes "" for missing
ExpressCRUDRouter(config) ==
    LET r0 == [controller |-> controller(config.controller),
               basePath |-> IF config.basePath = <<>> THEN <<"/">> ELSE config.basePath,
               routes |-> <<>>]
        r1 == IF ~config.disableDefaultRoutes THEN _registerCRUDRoutes(r0) ELSE r0
    IN  IF Len(config.routes) > 0 THEN registerRoutes(r1, config.routes) ELSE r1

\* the inputs: base paths, custom routes with and without a leading "/"
BasePaths == {<<>>, <<"/">>, <<"/", "api">>}
RoutePaths == {<<"/", "stats">>, <<"stats">>}
Middlewares == {<<>>, <<"auth">>, <<"auth", "log">>}
CustomRoutes ==
    {IRoute(path, method, "custom", m) :
        path \in RoutePaths, method \in {"get", "patch"}, m \in Middlewares}

\* the routers handed to mergeRouter and the paths they are mounted at
OtherRouters == {<<Layer("get", <<"/", "extra">>, <<"extra">>)>>}
MountPaths == {<<>>, <<"/", "sub">>}

Config(def, basePath, disable, routes) ==
    [controller |-> def, basePath |-> basePath, disableDefaultRoutes |-> disable,
     routes |-> routes]

RtStep(r) ==
    /\ rt' = r
    /\ UNCHANGED <<cfg, memory, transactionActive, transactionMemory, tx, last, svc, err,
                   ca, dto, snd, ctl, srv, mw>>

\* new ExpressCRUDRouter(config)
Construct ==
    /\ rt.op = "call"
    /\ RtStep([op |-> "router", config |-> rt.config, added |-> <<>>, merged |-> <<>>,
               router |-> ExpressCRUDRouter(rt.config)])

\* router.registerRoute(path, method, handler, middlewares)
RegisterRoute ==
    /\ rt.op = "router"
    /\ Len(rt.added) < MaxRegistered
    /\ \E route \in CustomRoutes :
          RtStep([rt EXCEPT
                    !.added = Append(@, route),
                    !.router = registerRoute(rt.router, route.path, route.method,
                                             route.handler, route.middlewares)])

\* router.mergeRouter(other, path)
MergeRouter ==
    /\ rt.op = "router"
    /\ Len(rt.merged) < MaxMerged
    /\ \E other \in OtherRouters, path \in MountPaths :
          RtStep([rt EXCEPT
                    !.merged = Append(@, [router |-> other, path |-> path]),
                    !.router = mergeRouter(rt.router, other, path)])

InitRouter ==
    /\ cfg = [kind |-> "test", isDeletedField |-> "isDeleted"]
    /\ memory = <<>>
    /\ transactionActive = FALSE
    /\ transactionMemory = {}
    /\ tx = TxIdle
    /\ last = NoCall
    /\ svc = SvcIdle
    /\ err = ErrIdle
    /\ ca = CaIdle
    /\ dto = DtoIdle
    /\ snd = SndIdle
    /\ ctl = CtlIdle
    /\ srv = SrvIdle
    /\ \E def \in ControllerDefs, basePath \in BasePaths, disable \in BOOLEAN :
          \/ rt = [op |-> "call", config |-> Config(def, basePath, disable, <<>>)]
          \/ \E route \in CustomRoutes :
                rt = [op |-> "call", config |-> Config(def, basePath, disable, <<route>>)]
    /\ mw = MwIdle

NextRouter == Construct \/ RegisterRoute \/ MergeRouter

SpecRouter == InitRouter /\ [][NextRouter]_vars

\* the five conventional routes with the handler each is to be bound to
Conventional ==
    << [method |-> "get", path |-> <<"/">>, handler |-> "list"],
       [method |-> "get", path |-> <<"/", ":id">>, handler |-> "getById"],
       [method |-> "post", path |-> <<"/">>, handler |-> "create"],
       [method |-> "put", path |-> <<"/", ":id">>, handler |-> "update"],
       [method |-> "delete", path |-> <<"/", ":id">>, handler |-> "delete"] >>

\* the base path followed by the path, "/" added in front of the path when
\* missing; the root base path adds nothing
Under(basePath, path) ==
    (IF basePath \in {<<>>, <<"/">>} THEN <<>> ELSE basePath)
        \o (IF Len(path) > 0 /\ path[1] = "/" THEN path ELSE <<"/">> \o path)

\* the routes registered on a router: its layers without the routers that
\* mergeRouter mounted, which are no routes of its own
registered(r) == SelectSeq(r.routes, LAMBDA l : l.method # "use")

\* C25 (the claim as stated): a router built without disableDefaultRoutes has
\* registered exactly the five conventional routes, each bound to the
\* controller's handler for it; built with disableDefaultRoutes it has none of
\* them; every route of config.routes and every registerRoute call is registered
\* after them under the base path with its middlewares before its handler.
C25_RoutesRegistered ==
    rt.op = "router" =>
        LET routes == registered(rt.router)
            defaults == IF rt.config.disableDefaultRoutes THEN 0 ELSE Len(Conventional)
            customs == rt.config.routes \o rt.added
        IN  /\ Len(routes) = defaults + Len(customs)
            /\ \A i \in 1..defaults :
                  routes[i] = Layer(Conventional[i].method,
                                    Under(rt.config.basePath, Conventional[i].path),
                                    <<Wrapped(Conventional[i].handler)>>)
            /\ \A i \in DOMAIN customs :
                  routes[defaults + i] =
                      Layer(customs[i].method,
                            Under(rt.config.basePath, customs[i].path),
                            customs[i].middlewares \o <<Wrapped(customs[i].handler)>>)

----
(* Claims about withTransaction *)

\* a write made by the running operation that returned its record
WroteInTx ==
    /\ tx.state = "running"
    /\ tx'.state = "running"
    /\ tx'.n = tx.n + 1
    /\ last'.op \in {"insert", "update", "restore"}
    /\ last'.threw = ""
    /\ last'.ret # NULL

\* C26: inside the operation a read through the DAO returns the record a
\* write of the operation has just made; when the operation resolves,
\* withTransaction resolves with its result, the DAO then shows the store the
\* operation saw, and after a resolved as after a rejected operation the DAO
\* is no longer in transactional mode.
C26_TransactionReadsAndCommits ==
    [][ /\ WroteInTx => findById(cfg, store', last'.id, EmptyObj, TRUE).ret = last'.ret
        /\ (tx.state = "running" /\ tx'.state = "resolved") =>
               /\ tx'.result = last.ret
               /\ store' = store
               /\ memory' = store
               /\ ~transactionActive'
        /\ (tx.state = "running" /\ tx'.state = "rejected") => ~transactionActive'
      ]_vars

C26_Witness ==
    /\ tx.state = "resolved"
    /\ tx.result # NULL
    /\ memory # <<>>
    /\ ~transactionActive

----
(* Two callers sharing one TestConcreteDAO.  Caller "a" runs a transaction;  *)
(* caller "b" issues plain calls or runs a transaction of its own.  Every    *)
(* await in a caller is a point where the other caller may run.  Each caller *)
(* inserts records under its own id.  Here tx holds, per caller, how it uses *)
(* the DAO, where it is and the records its inserts returned, and whether    *)
(* this.memory has been assigned null (memory is then not a Map).            *)

\* the most inserts one caller makes
MaxConcOps == 2

Callers == {"a", "b"}

Caller(mode, state, w) == [mode |-> mode, state |-> state, wrote |-> w]

ConcEntities(k) == { e \in Entities : e["id"] = k /\ "isDeleted" \notin DOMAIN e }

\* the store getter: this.transactionActive ? this.transactionMemory! : this.memory,
\* a nullable Map
storeOrNull ==
    IF transactionActive THEN transactionMemory
    ELSE IF tx.memoryIsNull THEN {} ELSE {memory}

\* dao.insert(e) by caller k through the shared instance: this.store.set throws
\* a TypeError when the getter answered null
ConcInsert(k, e) ==
    /\ Len(tx.callers[k].wrote) < MaxConcOps
    /\ IF storeOrNull = {}
       THEN /\ last' = Call("insert", k, e, EmptyObj, FALSE, EmptyObj, NULL, "TypeError")
            /\ UNCHANGED <<memory, transactionMemory, tx>>
       ELSE LET r == insert(cfg, CHOOSE m \in storeOrNull : TRUE, e)
            IN  /\ IF transactionActive
                   THEN transactionMemory' = {r.store} /\ UNCHANGED memory
                   ELSE memory' = r.store /\ UNCHANGED transactionMemory
                /\ last' = Call("insert", k, e, EmptyObj, FALSE, EmptyObj, r.ret, r.threw)
                /\ tx' = [tx EXCEPT !.callers[k].wrote = Append(@, e)]
    /\ UNCHANGED <<cfg, transactionActive, svc, err, ca, dto, snd, ctl, srv, rt, mw>>

\* a plain call of caller k, outside any transaction of its own
PlainInsert ==
    \E k \in Callers :
        /\ tx.callers[k].mode = "plain"
        /\ \E e \in ConcEntities(k) : ConcInsert(k, e)

\* a call made by the operation of caller k's transaction on the DAO it was handed
OpInsert ==
    \E k \in Callers :
        /\ tx.callers[k].state = "running"
        /\ \E e \in ConcEntities(k) : ConcInsert(k, e)

\* _withTransaction of caller k up to `await operation(this)`; new Map(null) is empty
ConcBegin ==
    \E k \in Callers :
        /\ tx.callers[k].mode = "tx"
        /\ tx.callers[k].state = "idle"
        /\ transactionActive' = TRUE
        /\ transactionMemory' = {IF tx.memoryIsNull THEN <<>> ELSE memory}
        /\ tx' = [tx EXCEPT !.callers[k].state = "running"]
        /\ UNCHANGED <<cfg, memory, last, svc, err, ca, dto, snd, ctl, srv, rt, mw>>

\* the operation of caller k resolved: this.memory = this.transactionMemory, then
\* the finally block
ConcResolve ==
    \E k \in Callers :
        /\ tx.callers[k].state = "running"
        /\ memory' = IF transactionMemory = {} THEN <<>>
                     ELSE CHOOSE m \in transactionMemory : TRUE
        /\ transactionActive' = FALSE
        /\ transactionMemory' = {}
        /\ tx' = [tx EXCEPT !.callers[k].state = "resolved",
                            !.memoryIsNull = (transactionMemory = {})]
        /\ UNCHANGED <<cfg, last, svc, err, ca, dto, snd, ctl, srv, rt, mw>>

\* the operation of caller k rejected: the catch rethrows, then the finally block
ConcReject ==
    \E k \in Callers :
        /\ tx.callers[k].state = "running"
        /\ transactionActive' = FALSE
        /\ transactionMemory' = {}
        /\ tx' = [tx EXCEPT !.callers[k].state = "rejected"]
        /\ UNCHANGED <<cfg, memory, last, svc, err, ca, dto, snd, ctl, srv, rt, mw>>

InitConc ==
    /\ cfg = [kind |-> "test", isDeletedField |-> "isDeleted"]
    /\ memory = <<>>
    /\ transactionActive = FALSE
    /\ transactionMemory = {}
    /\ \E mode \in {"plain", "tx"} :
          tx = [callers |-> [k \in Callers |->
                               Caller(IF k = "a" THEN "tx" ELSE mode, "idle", <<>>)],
                memoryIsNull |-> FALSE]
    /\ last = NoCall
    /\ svc = SvcIdle
    /\ err = ErrIdle
    /\ ca = CaIdle
    /\ dto = DtoIdle
    /\ snd = SndIdle
    /\ ctl = CtlIdle
    /\ srv = SrvIdle
    /\ rt = RtIdle
    /\ mw = MwIdle

NextConc ==
    \/ PlainInsert
    \/ OpInsert
    \/ ConcBegin
    \/ ConcResolve
    \/ ConcReject

SpecConc == InitConc /\ [][NextConc]_vars

\* no transaction is in progress
Quiet == \A k \in Callers : tx.callers[k].state # "running"

\* the committed store holds the record caller k wrote last
Kept(k) ==
    /\ ~tx.memoryIsNull
    /\ MapGet(memory, k) = Some(tx.callers[k].wrote[Len(tx.callers[k].wrote)])

\* the committed store holds no record of caller k
Discarded(k) == ~tx.memoryIsNull /\ ~HasKey(memory, k)

\* C27: the committed store is never corrupted, and once no transaction is in
\* progress the plain writes of the other caller are kept, the writes of a
\* resolved transaction are kept and the writes of a rejected transaction
\* are all discarded.
C27_TransactionScopedToInstance ==
    "callers" \in DOMAIN tx =>
        /\ ~tx.memoryIsNull
        /\ Quiet =>
              \A k \in Callers :
                  tx.callers[k].wrote # <<>> =>
                      /\ tx.callers[k].mode = "plain" => Kept(k)
                      /\ tx.callers[k].state = "resolved" => Kept(k)
                      /\ tx.callers[k].state = "rejected" => Discarded(k)

----
(* Claims about what an update can carry *)

\* C28: BaseService.update hands dao.update no soft-delete field: whatever the
\* update input holds, the patch that reaches the DAO has no key named by
\* the configuration's isDeletedField.
C28_UpdateCannotTouchSoftDelete ==
    \A r \in Requests :
        (svc[r].method = "update" /\ svc[r].config.isDeletedField # NONE) =>
            \A i \in DOMAIN svc[r].out.calls :
                svc[r].out.calls[i].fn = "update" =>
                    svc[r].config.isDeletedField \notin DOMAIN svc[r].out.calls[i].arg

\* C29: a patch toUpdateDTO returns holds at least one field with the value
\* the caller supplied for it; an input of which the update schema keeps no
\* field is rejected.
C29_PatchHoldsCallerField ==
    (dto.op = "toUpdateDTO" /\ dto.out.threw = NULL) =>
        \E k \in DOMAIN dto.out.result :
            k \in DOMAIN dto.entity /\ dto.out.result[k] = dto.entity[k]

----
(* globalErrorHandler (src/src/middleware/globalErrorHandler.ts) in an       *)
(* express pipeline.  Express hands an error-handling middleware the truthy  *)
(* values passed to next or thrown; next() without an argument moves on to   *)
(* the middlewares registered after it, and express's final handler ends a   *)
(* request nobody answered.                                                  *)

\* the errors express hands to an error-handling middleware
Reaching == {e \in ThrownValues : ~nullish(e)}

\* the middlewares registered after globalErrorHandler: one that calls next()
\* and one that answers the request itself
Pipelines == {<<>>, <<"passes">>, <<"responds">>, <<"passes", "responds">>}

\* globalErrorHandler(err, req, res, next): new ErrorResolver(...).resolve(err),
\* then next(); an exception of resolve leaves the handler before next()
globalErrorHandler(e, env) ==
    LET r == resolve(e, env)
    IN  [threw |-> r.threw, sent |-> r.sent, nextCalls |-> IF r.threw = "" THEN 1 ELSE 0]

MwStep(m) ==
    /\ mw' = m
    /\ UNCHANGED <<cfg, memory, transactionActive, transactionMemory, tx, last, svc, err,
                   ca, dto, snd, ctl, srv, rt>>

\* express invokes globalErrorHandler with the error
GlobalErrorHandler ==
    /\ mw.op = "call"
    /\ LET h == globalErrorHandler(mw.e, mw.env)
       IN  MwStep([op |-> "handled", e |-> mw.e, env |-> mw.env, rest |-> mw.rest,
                   threw |-> h.threw, sent |-> h.sent, invoked |-> <<>>,
                   pos |-> IF h.nextCalls > 0 THEN 1 ELSE Len(mw.rest) + 1])

\* next() reached a middleware registered after the error handler; one that
\* answers a request already answered dies with ERR_HTTP_HEADERS_SENT
InvokeNext ==
    /\ mw.op = "handled"
    /\ mw.pos \in DOMAIN mw.rest
    /\ MwStep([mw EXCEPT
                 !.invoked = Append(@, mw.rest[mw.pos]),
                 !.sent = IF mw.rest[mw.pos] = "responds" /\ mw.sent = <<>>
                          THEN <<[statusCode |-> 404]>> ELSE @,
                 !.pos = IF mw.rest[mw.pos] = "responds" THEN Len(mw.rest) + 1 ELSE @ + 1])

\* the end of the stack: express's final handler answers a request that has no
\* response yet
FinalHandler ==
    /\ mw.op = "handled"
    /\ mw.pos > Len(mw.rest)
    /\ MwStep([mw EXCEPT
                 !.op = "done",
                 !.sent = IF mw.sent = <<>>
                          THEN <<[statusCode |-> IF mw.threw # "" THEN 500 ELSE 404]>>
                          ELSE @])

InitPipe ==
    /\ cfg = [kind |-> "test", isDeletedField |-> "isDeleted"]
    /\ memory = <<>>
    /\ transactionActive = FALSE
    /\ transactionMemory = {}
    /\ tx = TxIdle
    /\ last = NoCall
    /\ svc = SvcIdle
    /\ err = ErrIdle
    /\ ca = CaIdle
    /\ dto = DtoIdle
    /\ snd = SndIdle
    /\ ctl = CtlIdle
    /\ srv = SrvIdle
    /\ rt = RtIdle
    /\ \E e \in Reaching, env \in Envs, rest \in Pipelines :
          mw = [op |-> "call", e |-> e, env |-> env, rest |-> rest]

NextPipe == GlobalErrorHandler \/ InvokeNext \/ FinalHandler

SpecPipe == InitPipe /\ [][NextPipe]_vars

\* C30: for an error that reached globalErrorHandler the request gets exactly
\* one response, and after the error response was sent no middleware of the
\* pipeline is invoked for the request.
C30_OneResponseThenStop ==
    /\ mw.op = "done" => Len(mw.sent) = 1
    /\ (mw.op \in {"handled", "done"} /\ mw.threw = "") =>
           (Len(mw.sent) = 1 /\ mw.invoked = <<>>)

====
